---- MODULE Spec2Model ----
(***************************************************************************)
(* A model of kalshi_edge: the risk-aware sizing and execution engine      *)
(* (execution/execute_signals.py), the signal sweeps (signals/             *)
(* manage_signals.py, api/app.py) and the position/PnL ledger              *)
(* (portfolio/pnl.py, portfolio/sync_positions.py).                        *)
(*                                                                         *)
(* Numbers.  The code works on Python floats (IEEE-754 binary64, round to   *)
(* nearest even): the sizing function takes math.ceil and // of float      *)
(* results, so a rounding error of one unit in the last place changes the  *)
(* contract count, and the ledger multiplies and divides prices by sizes.  *)
(* Those values are modelled bit-exactly: a double is a record [s, m, e]   *)
(* standing for s * m * 2^e, with m an arbitrary-precision natural kept as *)
(* a little-endian sequence of 15-bit limbs.  The float columns of the     *)
(* tables hold such values unchanged.                                      *)
(***************************************************************************)
EXTENDS Integers, Sequences, FiniteSets, TLC

(***************************************************************************)
(* Arbitrary-precision naturals (little-endian limbs, no high zero limb).  *)
(***************************************************************************)
LimbBits == 15
Base == 2^LimbBits

Min2(a, b) == IF a <= b THEN a ELSE b
Max2(a, b) == IF a >= b THEN a ELSE b
AbsInt(n) == IF n < 0 THEN -n ELSE n

RECURSIVE BTrim(_)
BTrim(a) ==
  IF Len(a) = 0 THEN a
  ELSE IF a[Len(a)] = 0 THEN BTrim(SubSeq(a, 1, Len(a) - 1)) ELSE a

RECURSIVE BFromInt(_)
BFromInt(n) == IF n = 0 THEN << >> ELSE << n % Base >> \o BFromInt(n \div Base)

RECURSIVE BToInt(_)
BToInt(a) == IF Len(a) = 0 THEN 0 ELSE a[1] + Base * BToInt(Tail(a))

BLimb(a, i) == IF i <= Len(a) THEN a[i] ELSE 0

RECURSIVE BAddC(_, _, _, _)
BAddC(a, b, i, c) ==
  IF i > Len(a) /\ i > Len(b) THEN (IF c = 0 THEN << >> ELSE << c >>)
  ELSE LET s == BLimb(a, i) + BLimb(b, i) + c
       IN  << s % Base >> \o BAddC(a, b, i + 1, s \div Base)

BAdd(a, b) == BAddC(a, b, 1, 0)

\* a - b for a >= b
RECURSIVE BSubC(_, _, _, _)
BSubC(a, b, i, br) ==
  IF i > Len(a) THEN << >>
  ELSE LET s == a[i] - BLimb(b, i) - br
       IN  IF s < 0 THEN << s + Base >> \o BSubC(a, b, i + 1, 1)
           ELSE << s >> \o BSubC(a, b, i + 1, 0)

BSub(a, b) == BTrim(BSubC(a, b, 1, 0))

RECURSIVE BCmpAt(_, _, _)
BCmpAt(a, b, i) ==
  IF i = 0 THEN 0
  ELSE IF a[i] > b[i] THEN 1
  ELSE IF a[i] < b[i] THEN -1
  ELSE BCmpAt(a, b, i - 1)

BCmp(a, b) ==
  IF Len(a) > Len(b) THEN 1
  ELSE IF Len(a) < Len(b) THEN -1
  ELSE BCmpAt(a, b, Len(a))

RECURSIVE BMulSmallC(_, _, _, _)
BMulSmallC(a, k, i, c) ==
  IF i > Len(a) THEN (IF c = 0 THEN << >> ELSE << c >>)
  ELSE LET p == a[i] * k + c
       IN  << p % Base >> \o BMulSmallC(a, k, i + 1, p \div Base)

\* a * k for 0 <= k < Base
BMulSmall(a, k) == IF k = 0 THEN << >> ELSE BMulSmallC(a, k, 1, 0)

BShiftLimbs(a, n) == IF Len(a) = 0 THEN a ELSE [i \in 1..n |-> 0] \o a

RECURSIVE BMulFrom(_, _, _)
BMulFrom(a, b, j) ==
  IF j > Len(b) THEN << >>
  ELSE BAdd(BShiftLimbs(BMulSmall(a, b[j]), j - 1), BMulFrom(a, b, j + 1))

BMul(a, b) == BMulFrom(a, b, 1)

\* a * 2^n
BShl(a, n) == BShiftLimbs(BMulSmall(a, 2^(n % LimbBits)), n \div LimbBits)

\* floor(a / 2^n)
BShr(a, n) ==
  LET k == n \div LimbBits
      d == IF k >= Len(a) THEN << >> ELSE SubSeq(a, k + 1, Len(a))
      p == 2^(n % LimbBits)
  IN  BTrim([i \in 1..Len(d) |-> (d[i] \div p) + (BLimb(d, i + 1) % p) * (Base \div p)])

RECURSIVE BitLenInt(_)
BitLenInt(n) == IF n = 0 THEN 0 ELSE 1 + BitLenInt(n \div 2)

BBitLen(a) == IF Len(a) = 0 THEN 0 ELSE LimbBits * (Len(a) - 1) + BitLenInt(a[Len(a)])

\* bit i (from 0) of a
BBit(a, i) == (BLimb(a, (i \div LimbBits) + 1) \div 2^(i % LimbBits)) % 2

\* a mod 2^n # 0
BLowNonZero(a, n) ==
  \/ \E i \in 1..Min2(Len(a), n \div LimbBits) : a[i] # 0
  \/ BLimb(a, (n \div LimbBits) + 1) % 2^(n % LimbBits) # 0

BIsOdd(a) == Len(a) > 0 /\ a[1] % 2 = 1

RECURSIVE TrailingZerosInt(_)
TrailingZerosInt(n) == IF n % 2 = 1 THEN 0 ELSE 1 + TrailingZerosInt(n \div 2)

RECURSIVE BTrailingZerosFrom(_, _)
BTrailingZerosFrom(a, i) ==
  IF a[i] = 0 THEN LimbBits + BTrailingZerosFrom(a, i + 1) ELSE TrailingZerosInt(a[i])

\* number of low zero bits of a # 0
BTrailingZeros(a) == BTrailingZerosFrom(a, 1)

\* the largest k in lo..hi with b * k <= r (b * lo <= r is given)
RECURSIVE BDigit(_, _, _, _)
BDigit(r, b, lo, hi) ==
  IF lo = hi THEN lo
  ELSE LET mid == (lo + hi + 1) \div 2
       IN  IF BCmp(BMulSmall(b, mid), r) <= 0 THEN BDigit(r, b, mid, hi)
           ELSE BDigit(r, b, lo, mid - 1)

\* long division, one limb of a at a time from the top: r the running
\* remainder, q the quotient limbs so far
RECURSIVE BDivFrom(_, _, _, _, _)
BDivFrom(a, b, j, r, q) ==
  IF j = 0 THEN [q |-> BTrim(q), r |-> r]
  ELSE LET r1 == BTrim(<< a[j] >> \o r)
           n == Len(b)
           top2 == BLimb(r1, n + 1) * Base + BLimb(r1, n)
           lo == top2 \div (b[n] + 1)
           hi == Min2(Base - 1, top2 \div b[n])
           k == BDigit(r1, b, lo, hi)
       IN  BDivFrom(a, b, j - 1, BSub(r1, BMulSmall(b, k)), << k >> \o q)

\* [q, r] with a = q * b + r, 0 <= r < b, for b # 0; b is first scaled so
\* that its top limb is at least Base / 2, which keeps lo..hi narrow
BDivMod(a, b) ==
  LET sh == LimbBits - BitLenInt(b[Len(b)])
      dm == BDivFrom(BShl(a, sh), BShl(b, sh), Len(BShl(a, sh)), << >>, << >>)
  IN  [q |-> dm.q, r |-> BShr(dm.r, sh)]

(***************************************************************************)
(* IEEE-754 binary64 values and the operations Python's float uses.        *)
(* The canonical form keeps m odd (zero is [1, <<>>, 0]), so two records   *)
(* are equal exactly when the doubles are.  Subnormals, infinities and     *)
(* NaN are outside the range of the dollar amounts here.                   *)
(***************************************************************************)
DoubleMantBits == 53

\* The element of a one-element set.  Only({ e(v) : v \in {x} }) is e(x) with
\* x evaluated once, however often e uses it.
Only(S) == CHOOSE r \in S : TRUE

FZero == [s |-> 1, m |-> << >>, e |-> 0]

FCanon(s, m, e) ==
  IF Len(m) = 0 THEN FZero
  ELSE LET tz == BTrailingZeros(m) IN [s |-> s, m |-> BShr(m, tz), e |-> e + tz]

\* s * m * 2^e rounded to nearest, ties to even
FRound(s, m0, e) ==
  Only({
      LET L == BBitLen(m)
          sh == Max2(L - DoubleMantBits, 0)
          q == BShr(m, sh)
          half == sh > 0 /\ BBit(m, sh - 1) = 1
          sticky == sh > 1 /\ BLowNonZero(m, sh - 1)
          up == half /\ (sticky \/ BIsOdd(q))
      IN  FCanon(s, IF up THEN BAdd(q, << 1 >>) ELSE q, e + sh)
    : m \in {m0} })

FromInt(n) == FCanon(IF n < 0 THEN -1 ELSE 1, BFromInt(AbsInt(n)), 0)

FNeg(a) == IF Len(a.m) = 0 THEN a ELSE [a EXCEPT !.s = -a.s]

FIsZero(a) == Len(a.m) = 0

\* -1, 0, 1 as a < b, a = b, a > b
FCmp(a0, b0) ==
  Only({
      IF FIsZero(a) /\ FIsZero(b) THEN 0
      ELSE IF FIsZero(a) THEN -b.s
      ELSE IF FIsZero(b) THEN a.s
      ELSE IF a.s # b.s THEN a.s
      ELSE LET emin == Min2(a.e, b.e)
           IN  a.s * BCmp(BShl(a.m, a.e - emin), BShl(b.m, b.e - emin))
    : a \in {a0}, b \in {b0} })

FLe(a, b) == FCmp(a, b) <= 0
FLt(a, b) == FCmp(a, b) < 0
FMin(a0, b0) ==
  Only({
      IF FLt(b, a) THEN b ELSE a
    : a \in {a0}, b \in {b0} })

FAdd(a0, b0) ==
  Only({
      IF FIsZero(a) THEN b
      ELSE IF FIsZero(b) THEN a
      ELSE LET emin == Min2(a.e, b.e)
               A == BShl(a.m, a.e - emin)
               B == BShl(b.m, b.e - emin)
               c == BCmp(A, B)
               big == IF c >= 0 THEN A ELSE B
               small == IF c >= 0 THEN B ELSE A
           IN  FRound(IF c >= 0 THEN a.s ELSE b.s,
                      IF a.s = b.s THEN BAdd(big, small) ELSE BSub(big, small), emin)
    : a \in {a0}, b \in {b0} })

FSub(a, b) == FAdd(a, FNeg(b))

FMul(a0, b0) ==
  Only({
      FRound(a.s * b.s, BMul(a.m, b.m), a.e + b.e)
    : a \in {a0}, b \in {b0} })

\* a / b for b # 0: the quotient to 55 bits or more, with a sticky bit below it
FDiv(a0, b0) ==
  Only({
      IF FIsZero(a) THEN FZero
      ELSE LET sh == BBitLen(b.m) + DoubleMantBits + 2 - BBitLen(a.m)
               dm == BDivMod(BShl(a.m, sh), b.m)
               mm == BAdd(BMulSmall(dm.q, 2), IF Len(dm.r) = 0 THEN << >> ELSE << 1 >>)
           IN  FRound(a.s * b.s, mm, a.e - b.e - sh - 1)
    : a \in {a0}, b \in {b0} })

FAbs(a) == [a EXCEPT !.s = 1]

\* int(math.ceil(x))
FCeilInt(x0) ==
  Only({
      IF FIsZero(x) THEN 0
      ELSE IF x.e >= 0 THEN x.s * BToInt(BShl(x.m, x.e))
      ELSE LET q == BToInt(BShr(x.m, -x.e))
           IN  IF x.s > 0 THEN q + 1 ELSE -q
    : x \in {x0} })

\* int(a // b) for a >= 0, b > 0: the floor of the exact quotient
FFloorDivInt(a0, b0) ==
  Only({
      IF FIsZero(a) THEN 0
      ELSE LET emin == Min2(a.e, b.e)
           IN  BToInt(BDivMod(BShl(a.m, a.e - emin), BShl(b.m, b.e - emin)).q)
    : a \in {a0}, b \in {b0} })

\* int(round(x)): the nearest integer, a tie going to the even one
FRoundInt(x0) ==
  Only({
      IF FIsZero(x) THEN 0
      ELSE IF x.e >= 0 THEN x.s * BToInt(BShl(x.m, x.e))
      ELSE Only({ x.s * (IF BCmp(x.m, BShl(BAdd(BMulSmall(BFromInt(q), 2), BFromInt(1)), -x.e - 1)) < 0
                         THEN q
                         ELSE IF BCmp(x.m, BShl(BAdd(BMulSmall(BFromInt(q), 2), BFromInt(1)), -x.e - 1)) > 0
                         THEN q + 1
                         ELSE q + (q % 2))
                : q \in { BToInt(BShr(x.m, -x.e)) } })
    : x \in {x0} })

\* float("n/d") for a decimal literal or a stored decimal: the nearest double
Dec(n, d) == FDiv(FromInt(n), FromInt(d))

FOne == FromInt(1)

(***************************************************************************)
(* Configuration (config.py).  The caps, the bankroll and the fraction     *)
(* come from the environment; the settings the model runs under are the   *)
(* defaults, the caps of tests/test_sizing.py, and a tight setting in      *)
(* which the caps bind within two signals.                                 *)
(***************************************************************************)
MAX_CONTRACTS_CAP == 1000
TARGET_RISK_USD == 3

Limits(trade, market, total) ==
  [max_risk_per_trade |-> FromInt(trade),
   max_risk_per_market |-> FromInt(market),
   max_risk_total |-> FromInt(total)]

get_risk_limits == Limits(10, 50, 200)
TestLimits == Limits(50, 200, 500)
TestLimitsLowTotal == Limits(50, 200, 30)
TightLimits == Limits(4, 5, 7)

get_initial_bankroll_usd == FromInt(1000)
get_max_risk_fraction_per_trade == Dec(15, 1000)
TestRiskFraction == Dec(3, 100)

Sides == {"yes", "no"}

(***************************************************************************)
(* estimate_trade_risk_usd and compute_order_size_for_signal, for a signal *)
(* of the given side and price (the float of its p_mkt).                   *)
(***************************************************************************)
risk_per_contract_of(side, price) == IF side = "no" THEN FSub(FOne, price) ELSE price

estimate_trade_risk_usd(side, price, size) ==
  IF side = "yes" THEN FMul(price, FromInt(size))
  ELSE FMul(FSub(FOne, price), FromInt(size))

binding_cap(bankroll, risk_limits, per_market_risk, total_risk, risk_fraction) ==
  LET per_trade_cap == FMin(risk_limits.max_risk_per_trade, FMul(bankroll, risk_fraction))
      remaining_market == FSub(risk_limits.max_risk_per_market, per_market_risk)
      remaining_total == FSub(risk_limits.max_risk_total, total_risk)
  IN  FMin(FMin(per_trade_cap, remaining_market), remaining_total)

(***************************************************************************)
(* Variants of the sizing function with one step of the code left out: the *)
(* re-check of the rounded-up size against the cap, and the total-cap      *)
(* headroom.  The properties of the sizing function must tell them apart   *)
(* from the code.                                                          *)
(***************************************************************************)
size_without_recheck(side, price, bankroll, risk_limits, per_market_risk, total_risk, risk_fraction) ==
  LET risk_per_contract == risk_per_contract_of(side, price)
      max_risk == binding_cap(bankroll, risk_limits, per_market_risk, total_risk, risk_fraction)
      target_risk == FMin(FromInt(TARGET_RISK_USD), max_risk)
      size0 == FCeilInt(FDiv(target_risk, risk_per_contract))
  IN  [size |-> IF FLe(risk_per_contract, FZero) THEN 0
                ELSE IF FLe(max_risk, FZero) THEN 0
                ELSE IF size0 <= 0 THEN 0
                ELSE Min2(size0, MAX_CONTRACTS_CAP),
       risk_per_contract |-> risk_per_contract]

size_without_total_headroom(side, price, bankroll, risk_limits, per_market_risk, total_risk, risk_fraction) ==
  LET risk_per_contract == risk_per_contract_of(side, price)
      max_risk == binding_cap(bankroll, risk_limits, per_market_risk, FZero, risk_fraction)
      target_risk == FMin(FromInt(TARGET_RISK_USD), max_risk)
      size0 == FCeilInt(FDiv(target_risk, risk_per_contract))
      size1 == IF FLt(max_risk, FMul(FromInt(size0), risk_per_contract))
               THEN FFloorDivInt(max_risk, risk_per_contract)
               ELSE size0
  IN  [size |-> IF FLe(risk_per_contract, FZero) THEN 0
                ELSE IF FLe(max_risk, FZero) THEN 0
                ELSE IF size1 <= 0 THEN 0
                ELSE Min2(size1, MAX_CONTRACTS_CAP),
       risk_per_contract |-> risk_per_contract]

compute_order_size_for_signal(side, price, bankroll, risk_limits, per_market_risk, total_risk, risk_fraction) ==
  LET risk_per_contract == risk_per_contract_of(side, price)
      max_risk == binding_cap(bankroll, risk_limits, per_market_risk, total_risk, risk_fraction)
      target_risk == FMin(FromInt(TARGET_RISK_USD), max_risk)
      size0 == FCeilInt(FDiv(target_risk, risk_per_contract))
      size1 == IF FLt(max_risk, FMul(FromInt(size0), risk_per_contract))
               THEN FFloorDivInt(max_risk, risk_per_contract)
               ELSE size0
  IN  [size |-> IF FLe(risk_per_contract, FZero) THEN 0
                ELSE IF FLe(max_risk, FZero) THEN 0
                ELSE IF size1 <= 0 THEN 0
                ELSE Min2(size1, MAX_CONTRACTS_CAP),
       risk_per_contract |-> risk_per_contract]

(***************************************************************************)
(* The ledger functions of portfolio/pnl.py on a positions table           *)
(* (market_ticker, side) -> row.  A missing row reads as NoPosition, which *)
(* carries the defaults _update_position uses ("... if row else 0").       *)
(***************************************************************************)
Markets == {"MKT-A", "MKT-B"}
PosKeys == Markets \X Sides
Directions == {"buy", "sell"}

NoPosition == [held |-> FALSE, size |-> 0, avg_entry_price |-> FZero, realized_pnl |-> FZero]

\* profit_yes with the price difference taken the wrong way round.
profit_yes_reversed(avg_price, trade_price, direction, size) ==
  LET delta == FSub(avg_price, trade_price)
  IN  IF direction = "sell" THEN FMul(delta, FromInt(size))
      ELSE FMul(FNeg(delta), FromInt(size))

profit_yes(avg_price, trade_price, direction, size) ==
  LET delta == FSub(trade_price, avg_price)
  IN  IF direction = "sell" THEN FMul(delta, FromInt(size))
      ELSE FMul(FNeg(delta), FromInt(size))

profit_no(avg_yes_price, trade_yes_price, direction, size) ==
  LET delta == FSub(avg_yes_price, trade_yes_price)
  IN  IF direction = "buy" THEN FMul(delta, FromInt(size))
      ELSE FMul(FNeg(delta), FromInt(size))

\* position_change with the average entry price reset to the trade price on
\* every closing trade, not only on a flip.
position_change_repriced_on_close(row, side, size_delta, price) ==
  LET size_prev == row.size
      avg_prev == row.avg_entry_price
      extension == \/ (size_prev >= 0 /\ size_delta >= 0)
                   \/ (size_prev <= 0 /\ size_delta <= 0)
      total_cost == FAdd(FMul(avg_prev, FromInt(AbsInt(size_prev))),
                         FMul(price, FromInt(AbsInt(size_delta))))
      denom == AbsInt(size_prev) + AbsInt(size_delta)
      closing == Min2(AbsInt(size_prev), AbsInt(size_delta))
      flipped == AbsInt(size_delta) > AbsInt(size_prev)
      remaining == AbsInt(size_delta) - AbsInt(size_prev)
  IN  IF extension
      THEN [size_new |-> size_prev + size_delta,
            avg_new |-> IF denom # 0 THEN FDiv(total_cost, FromInt(denom)) ELSE FZero,
            realized_delta |-> FZero]
      ELSE [size_new |-> IF flipped THEN (IF size_delta > 0 THEN remaining ELSE -remaining)
                         ELSE size_prev + size_delta,
            avg_new |-> price,
            realized_delta |->
              IF side = "yes"
              THEN profit_yes(avg_prev, price, IF size_prev > 0 THEN "sell" ELSE "buy", closing)
              ELSE profit_no(avg_prev, price, IF size_prev < 0 THEN "buy" ELSE "sell", closing)]

\* (size_new, avg_new, realized_delta) of _update_position for the row read.
position_change(row, side, size_delta, price) ==
  LET size_prev == row.size
      avg_prev == row.avg_entry_price
      extension == \/ (size_prev >= 0 /\ size_delta >= 0)
                   \/ (size_prev <= 0 /\ size_delta <= 0)
      total_cost == FAdd(FMul(avg_prev, FromInt(AbsInt(size_prev))),
                         FMul(price, FromInt(AbsInt(size_delta))))
      denom == AbsInt(size_prev) + AbsInt(size_delta)
      closing == Min2(AbsInt(size_prev), AbsInt(size_delta))
      flipped == AbsInt(size_delta) > AbsInt(size_prev)
      remaining == AbsInt(size_delta) - AbsInt(size_prev)
  IN  IF extension
      THEN [size_new |-> size_prev + size_delta,
            avg_new |-> IF denom # 0 THEN FDiv(total_cost, FromInt(denom)) ELSE FZero,
            realized_delta |-> FZero]
      ELSE [size_new |-> IF flipped THEN (IF size_delta > 0 THEN remaining ELSE -remaining)
                         ELSE size_prev + size_delta,
            avg_new |-> IF flipped THEN price ELSE avg_prev,
            realized_delta |->
              IF side = "yes"
              THEN profit_yes(avg_prev, price, IF size_prev > 0 THEN "sell" ELSE "buy", closing)
              ELSE profit_no(avg_prev, price, IF size_prev < 0 THEN "buy" ELSE "sell", closing)]

\* The upsert of _update_position: size and average replaced, realized PnL
\* added to the row's.
upsert_position(table, market_ticker, side, chg) ==
  [table EXCEPT ![<< market_ticker, side >>] =
     [held |-> TRUE, size |-> chg.size_new, avg_entry_price |-> chg.avg_new,
      realized_pnl |-> FAdd(@.realized_pnl, chg.realized_delta)]]

update_position(table, market_ticker, side, size_delta, price) ==
  upsert_position(table, market_ticker, side,
                  position_change(table[<< market_ticker, side >>], side, size_delta, price))

trade_size_delta(trade) == IF trade.direction = "buy" THEN trade.size ELSE -trade.size

(***************************************************************************)
(* State.                                                                  *)
(*   positions, trades, account_pnl: the tables of the ledger.             *)
(*   last_yes: the latest YES price per market in the prices table (<< >>  *)
(*     where there is none).                                               *)
(*   ledgerLog: history of the ledger operations, each with the row it     *)
(*     found and the row it left (not program state).                      *)
(*   szIn/szOut: the arguments of one call of the sizing function and its  *)
(*     result (<< >> before the call, << result >> after it).              *)
(*   signals: the signals table.                                           *)
(*   config: the environment's settings, EXECUTION_MODE and the risk caps, *)
(*     and the batch_limit the passes are called with.                     *)
(*   pass: for each executor, the locals of its execute_signals pass, the  *)
(*     step it is at, the number of passes it has run and the value the    *)
(*     last one returned; start and dispatched record what the pass read   *)
(*     at its start and what it dispatched (not program state).            *)
(*   venue_orders: the orders the venue has accepted, each tagged with the *)
(*     signal it was placed for.                                           *)
(*   disturbances: how many times the environment has intervened: a pass   *)
(*     triggered through the API, a cancellation, a storage write or a     *)
(*     venue call that raised.                                             *)
(*   txn: for each writer, its record_trade transaction: the trade and the *)
(*     position row it read, while the transaction is open.                *)
(*     In a take-profit exit pass: EXECUTION_MODE, TAKE_PROFIT_FACTOR and  *)
(*     the locals of process_take_profit_exits.                            *)
(*   cycle: the scheduler's position in a cycle and the stages it has      *)
(*     attempted.                                                          *)
(*   fnIn/fnOut: the arguments of one call of a function of the signal     *)
(*     generator or of the calibration, and its result.                    *)
(*   ingest: the markets table and the prices rows the ingestion writes,   *)
(*     the clock, and the number of ingestion operations run.              *)
(***************************************************************************)
VARIABLES positions, trades, account_pnl, last_yes, ledgerLog, szIn, szOut,
          signals, config, pass, venue_orders, disturbances,
          txn, cycle, fnIn, fnOut, ingest

vars == << positions, trades, account_pnl, last_yes, ledgerLog, szIn, szOut,
          signals, config, pass, venue_orders, disturbances,
          txn, cycle, fnIn, fnOut, ingest >>
ledgerVars == << positions, trades, account_pnl, last_yes, ledgerLog >>
sizingVars == << szIn, szOut >>
execVars == << signals, config, pass, venue_orders, disturbances >>
restVars == << txn, cycle, fnIn, fnOut, ingest >>

NoResult == << >>
NoSnapshot == << >>

LedgerEmpty ==
  /\ positions = [k \in PosKeys |-> NoPosition]
  /\ trades = << >>
  /\ account_pnl = NoSnapshot
  /\ ledgerLog = << >>

SizingIdle == szIn = << >> /\ szOut = NoResult

Executors == {"scheduler", "admin"}
MaxPasses == 2
MaxDisturbances == 1
VenueReplies == {"raise", "bare", "resting"}

IdlePass ==
  [pc |-> "idle", runs |-> 0, mode |-> "none", limits |-> << >>, batch |-> << >>, idx |-> 0,
   total_risk |-> << >>, per_market |-> << >>, bankroll |-> << >>, executed_count |-> 0,
   cur |-> << >>, returned |-> << >>, start |-> << >>, dispatched |-> << >>]

RestIdle == txn = << >> /\ cycle = << >> /\ fnIn = << >> /\ fnOut = << >> /\ ingest = << >>

\* execute_signals(batch_limit: int = 50)
batch_limit == 50

ExecIdle ==
  /\ signals = << >>
  /\ config = [execution_mode |-> "simulate", risk_limits |-> get_risk_limits,
               batch_limit |-> batch_limit]
  /\ pass = [e \in Executors |-> IdlePass]
  /\ venue_orders = << >>
  /\ disturbances = 0

(***************************************************************************)
(* record_trade: the trade row and the position update, one transaction.   *)
(***************************************************************************)
record_trade(trade) ==
  \E chg \in { position_change(positions[<< trade.market_ticker, trade.side >>],
                               trade.side, trade_size_delta(trade), trade.price) } :
    /\ trades' = Append(trades, trade)
    /\ positions' = upsert_position(positions, trade.market_ticker, trade.side, chg)
    /\ ledgerLog' = Append(ledgerLog,
         [op |-> "record_trade", trade |-> trade,
          before |-> positions[<< trade.market_ticker, trade.side >>], change |-> chg])

(***************************************************************************)
(* sync_positions: the table is truncated and refilled with the venue's    *)
(* YES positions; the insert names no realized_pnl.                        *)
(***************************************************************************)
sync_positions(venue_positions) ==
  /\ positions' =
       [k \in PosKeys |->
          IF k[2] = "yes" /\ \E i \in DOMAIN venue_positions :
                               venue_positions[i].ticker = k[1] /\ venue_positions[i].position # 0
          THEN LET i == CHOOSE i \in DOMAIN venue_positions :
                          /\ venue_positions[i].ticker = k[1]
                          /\ venue_positions[i].position # 0
                          /\ \A j \in DOMAIN venue_positions :
                               (venue_positions[j].ticker = k[1] /\ venue_positions[j].position # 0)
                                  => j <= i
                   pos == venue_positions[i]
               IN  [held |-> TRUE, size |-> pos.position,
                    avg_entry_price |-> FDiv(FDiv(FromInt(pos.total_cost), FromInt(100)),
                                             FromInt(AbsInt(pos.position))),
                    realized_pnl |-> FZero]
          ELSE NoPosition]
  /\ ledgerLog' = Append(ledgerLog, [op |-> "sync_positions"])
  /\ UNCHANGED << trades, account_pnl, last_yes >>

(***************************************************************************)
(* snapshot_account_pnl: realized and unrealized PnL summed over the       *)
(* positions table, stored as the day's account_pnl row.                   *)
(***************************************************************************)
RECURSIVE FSum(_, _)
FSum(f, keys) ==
  IF keys = << >> THEN FZero ELSE FAdd(FSum(f, SubSeq(keys, 1, Len(keys) - 1)), f[keys[Len(keys)]])

PosKeyOrder == << << "MKT-A", "yes" >>, << "MKT-A", "no" >>, << "MKT-B", "yes" >>, << "MKT-B", "no" >> >>

unrealized_of(row, side, last) ==
  IF ~row.held \/ last = << >> THEN FZero
  ELSE IF side = "yes" THEN FMul(FSub(last[1], row.avg_entry_price), FromInt(row.size))
  ELSE FMul(FSub(row.avg_entry_price, last[1]), FromInt(row.size))

snapshot_account_pnl ==
  LET realized == FSum([k \in PosKeys |-> positions[k].realized_pnl], PosKeyOrder)
      unrealized == FSum([k \in PosKeys |-> unrealized_of(positions[k], k[2], last_yes[k[1]])],
                         PosKeyOrder)
  IN  /\ account_pnl' = [realized_pnl |-> realized, unrealized_pnl |-> unrealized,
                         total_equity |-> FAdd(realized, unrealized)]
      /\ ledgerLog' = Append(ledgerLog, [op |-> "snapshot_account_pnl"])
      /\ UNCHANGED << positions, trades, last_yes >>

(***************************************************************************)
(* SpecLedger: the ledger under any sequence of its operations, up to      *)
(* MaxLedgerOps of them: trades of either direction and side on one        *)
(* market, portfolio syncs and PnL snapshots.                              *)
(***************************************************************************)
MaxLedgerOps == 2
LedgerPricesCents == {7, 20, 90}
LedgerSizes == {3, 10}
LedgerPrice == [c \in LedgerPricesCents |-> Dec(c, 100)]
VenuePortfolios ==
  { << >>, << [ticker |-> "MKT-A", position |-> 5, total_cost |-> 100] >> }
LatestPrices == [mk \in Markets |-> IF mk = "MKT-A" THEN << Dec(50, 100) >> ELSE << >>]

LedgerTrade(side, direction, size, cents) ==
  [signal_id |-> 0, market_ticker |-> "MKT-A", side |-> side, size |-> size,
   price |-> LedgerPrice[cents], direction |-> direction]

LedgerTrades ==
  { LedgerTrade(side, direction, size, c) :
      side \in Sides, direction \in Directions, size \in LedgerSizes, c \in LedgerPricesCents }

\* A ledger that has already seen a round trip on (MKT-A, yes), 10 bought at
\* 0.20 and sold at 0.90: its row is flat and carries the realized PnL.
EmptyTable == [k \in PosKeys |-> NoPosition]
RoundTripTrades == << LedgerTrade("yes", "buy", 10, 20), LedgerTrade("yes", "sell", 10, 90) >>
RoundTripTable ==
  update_position(update_position(EmptyTable, "MKT-A", "yes", 10, LedgerPrice[20]),
                  "MKT-A", "yes", -10, LedgerPrice[90])

LedgerInit ==
  /\ \/ positions = EmptyTable /\ trades = << >>
     \/ positions = RoundTripTable /\ trades = RoundTripTrades
  /\ account_pnl = NoSnapshot
  /\ ledgerLog = << >>
  /\ last_yes = LatestPrices
  /\ SizingIdle
  /\ ExecIdle
  /\ RestIdle

LedgerRecordTrade ==
  /\ Len(ledgerLog) < MaxLedgerOps
  /\ \E trade \in LedgerTrades : record_trade(trade)
  /\ UNCHANGED << account_pnl, last_yes, szIn, szOut >>
  /\ UNCHANGED execVars
  /\ UNCHANGED restVars

LedgerSync ==
  /\ Len(ledgerLog) < MaxLedgerOps
  /\ \E vp \in VenuePortfolios : sync_positions(vp)
  /\ UNCHANGED sizingVars
  /\ UNCHANGED execVars
  /\ UNCHANGED restVars

LedgerSnapshot ==
  /\ Len(ledgerLog) < MaxLedgerOps
  /\ snapshot_account_pnl
  /\ UNCHANGED sizingVars
  /\ UNCHANGED execVars
  /\ UNCHANGED restVars

LedgerNext == LedgerRecordTrade \/ LedgerSync \/ LedgerSnapshot

SpecLedger == LedgerInit /\ [][LedgerNext]_vars

(***************************************************************************)
(* SpecSizing: one call of compute_order_size_for_signal on arguments      *)
(* drawn from a grid: both sides, prices in cents (0 and 100, where a side *)
(* has no risk, and 150, a price above 1), three configurations, and prior *)
(* exposures that are zero or lie a number of half dollars below or above  *)
(* the market cap and the total cap.                                       *)
(***************************************************************************)
SizingPricesCents == {0, 1, 7, 20, 35, 50, 80, 90, 99, 100, 150}
MaxHeadroomSteps == 8
MaxMarketHeadroomSteps == 3
OverCapSteps == 1
HeadroomStep == Dec(1, 2)

SizingConfigs ==
  { [risk_limits |-> get_risk_limits, bankroll |-> get_initial_bankroll_usd,
     risk_fraction |-> get_max_risk_fraction_per_trade],
    [risk_limits |-> TestLimits, bankroll |-> get_initial_bankroll_usd,
     risk_fraction |-> TestRiskFraction],
    [risk_limits |-> TestLimitsLowTotal, bankroll |-> get_initial_bankroll_usd,
     risk_fraction |-> TestRiskFraction] }

ExposuresNear(cap, n) ==
  {FZero} \cup {FSub(cap, FMul(FromInt(k), HeadroomStep)) : k \in (0 - OverCapSteps)..n}

SizingInit ==
  /\ \E side \in Sides, c \in SizingPricesCents, cfg \in SizingConfigs :
       \E pm \in ExposuresNear(cfg.risk_limits.max_risk_per_market, MaxMarketHeadroomSteps),
          tr \in ExposuresNear(cfg.risk_limits.max_risk_total, MaxHeadroomSteps) :
         szIn = [side |-> side, price |-> Dec(c, 100), bankroll |-> cfg.bankroll,
                 risk_limits |-> cfg.risk_limits, per_market_risk |-> pm,
                 total_risk |-> tr, risk_fraction |-> cfg.risk_fraction]
  /\ szOut = NoResult
  /\ LedgerEmpty
  /\ last_yes = [mk \in Markets |-> << >>]
  /\ ExecIdle
  /\ RestIdle

SizeSignal ==
  /\ szOut = NoResult
  /\ szOut' = << compute_order_size_for_signal(szIn.side, szIn.price, szIn.bankroll,
                    szIn.risk_limits, szIn.per_market_risk, szIn.total_risk,
                    szIn.risk_fraction) >>
  /\ UNCHANGED szIn
  /\ UNCHANGED ledgerVars
  /\ UNCHANGED execVars
  /\ UNCHANGED restVars

SizingNext == SizeSignal

SpecSizing == SizingInit /\ [][SizingNext]_vars

(***************************************************************************)
(* Signal execution (execution/execute_signals.py, execution/client.py,    *)
(* api/app.py, signals/manage_signals.py).                                 *)
(*                                                                         *)
(* The signals table is a sequence of rows in creation order, a row's id   *)
(* being its index.  A nullable column holds NULL or << value >>.  The     *)
(* columns order_id, sent_at and filled_at are left out: nothing reads     *)
(* them.                                                                   *)
(***************************************************************************)
NULL == << >>
OpenStatuses == {"pending", "resting", "sent", "simulated"}

pending_ids(sigs) ==
  SelectSeq([i \in DOMAIN sigs |-> i], LAMBDA i : sigs[i].status = "pending")

\* fetch_pending_signals with ORDER BY created_at DESC.
fetch_newest_pending(sigs, limit) ==
  SubSeq(pending_ids(sigs), Len(pending_ids(sigs)) - Min2(Len(pending_ids(sigs)), limit) + 1,
         Len(pending_ids(sigs)))

fetch_pending_signals(sigs, limit) ==
  SubSeq(pending_ids(sigs), 1, Min2(Len(pending_ids(sigs)), limit))

norm_price(p0) ==
  Only({ IF FLt(q, FZero) THEN FZero ELSE q
       : q \in { IF FLt(FOne, p0) THEN FDiv(p0, FromInt(100)) ELSE p0 } })

\* The rows compute_existing_risk adds up, in the order it reads them: the
\* signals with status pending or sent (by id), then the positions.
exposure_rows(sigs, table) ==
  LET open == SelectSeq([i \in DOMAIN sigs |-> i],
                        LAMBDA i : sigs[i].status \in {"pending", "sent"})
      rows == SelectSeq(PosKeyOrder, LAMBDA k : table[k].held)
  IN  [n \in 1..Len(open) |->
         [market_ticker |-> sigs[open[n]].market_ticker,
          r |-> estimate_trade_risk_usd(sigs[open[n]].side, norm_price(sigs[open[n]].p_mkt),
                                        sigs[open[n]].size)]]
      \o
      [n \in 1..Len(rows) |->
         [market_ticker |-> rows[n][1],
          r |-> FAbs(FMul(IF rows[n][2] = "yes"
                          THEN norm_price(table[rows[n]].avg_entry_price)
                          ELSE FSub(FOne, norm_price(table[rows[n]].avg_entry_price)),
                          FromInt(table[rows[n]].size)))]]

compute_existing_risk(sigs, table) ==
  LET rows == exposure_rows(sigs, table)
      of(mk) == SelectSeq(rows, LAMBDA x : x.market_ticker = mk)
  IN  [total |-> FSum([n \in DOMAIN rows |-> rows[n].r], [n \in DOMAIN rows |-> n]),
       per_market |->
         [mk \in Markets |-> FSum([n \in DOMAIN of(mk) |-> of(mk)[n].r],
                                  [n \in DOMAIN of(mk) |-> n])]]

get_current_bankroll_usd(pnl) ==
  IF DOMAIN pnl = {} THEN get_initial_bankroll_usd ELSE pnl.total_equity

update_signal_execution(sigs, signal_id, status, execution_mode, executed_price, executed_size, error) ==
  [sigs EXCEPT ![signal_id] =
     [@ EXCEPT !.status = status,
               !.execution_mode = << execution_mode >>,
               !.executed_price = IF executed_price = NULL THEN @ ELSE executed_price,
               !.executed_size = IF executed_size = NULL THEN @ ELSE executed_size,
               !.last_error = IF error = NULL THEN @ ELSE error]]

\* The three guards of execute_signals: the reason of the first that rejects.
guard_rejection(risk_new, market_risk, total_risk, limits) ==
  IF FLt(limits.max_risk_per_trade, risk_new) THEN << "Risk per trade exceeds limit" >>
  ELSE IF FLt(limits.max_risk_per_market, FAdd(market_risk, risk_new))
       THEN << "Per-market risk exceeds limit" >>
  ELSE IF FLt(limits.max_risk_total, FAdd(total_risk, risk_new))
       THEN << "Total risk exceeds limit" >>
  ELSE NULL

\* dispatch_decision without the check of the size: a signal sized 0 goes
\* on to the guards.
dispatch_decision_unchecked_size(sig, bankroll, limits, market_risk, total_risk) ==
  Only({ Only({ [size |-> sized.size, risk_new |-> risk_new,
                 ignore |-> guard_rejection(risk_new, market_risk, total_risk, limits)]
              : risk_new \in { FMul(sized.risk_per_contract, FromInt(sized.size)) } })
       : sized \in { compute_order_size_for_signal(sig.side, sig.p_mkt, bankroll, limits,
                        market_risk, total_risk, get_max_risk_fraction_per_trade) } })

\* Sizing and guards for one signal of the batch under the pass's running
\* figures: the size, the new risk and the reason for ignoring it, if any.
dispatch_decision(sig, bankroll, limits, market_risk, total_risk) ==
  Only({ IF sized.size <= 0
         THEN [size |-> sized.size, risk_new |-> FZero,
               ignore |-> << "Insufficient risk budget for dynamic sizing" >>]
         ELSE Only({ [size |-> sized.size, risk_new |-> risk_new,
                      ignore |-> guard_rejection(risk_new, market_risk, total_risk, limits)]
                   : risk_new \in { FMul(sized.risk_per_contract, FromInt(sized.size)) } })
       : sized \in { compute_order_size_for_signal(sig.side, sig.p_mkt, bankroll, limits,
                        market_risk, total_risk, get_max_risk_fraction_per_trade) } })

\* The running figures left unchanged by a dispatch.
keep_dispatched_risk_out(running, risk_new) == running

\* total_risk += risk_new, per_market[market_ticker] = ... + risk_new
add_dispatched_risk(running, risk_new) == FAdd(running, risk_new)

\* ExecutionClient.place_order: the limit price in cents and the order sent.
price_cents_of(price) == Max2(1, Min2(99, FRoundInt(FMul(price, FromInt(100)))))

create_order(signal_id, sig, size) ==
  [signal_id |-> signal_id, ticker |-> sig.market_ticker, side |-> sig.side,
   action |-> "buy", count |-> size, price_cents |-> price_cents_of(sig.p_mkt)]

\* What place_order returns for the venue's reply: "bare" is a reply without
\* order attributes, any other reply an order object of that status echoing
\* the price and the count.
place_order_result(order, reply) ==
  IF reply = "bare" THEN [status |-> NULL, filled_size |-> NULL, avg_price |-> NULL]
  ELSE [status |-> << reply >>, filled_size |-> << order.count >>,
        avg_price |-> << Dec(order.price_cents, 100) >>]

\* status, executed_price and executed_size of the live path.
live_execution(sig, size, resp) ==
  [status |-> IF resp.status = NULL THEN "sent" ELSE resp.status[1],
   executed_price |-> IF resp.avg_price = NULL \/ FIsZero(resp.avg_price[1])
                      THEN sig.p_mkt ELSE resp.avg_price[1],
   executed_size |-> IF resp.filled_size = NULL \/ resp.filled_size[1] = 0
                     THEN size ELSE resp.filled_size[1]]

cancel_rows(sigs, ids, reason) ==
  [i \in DOMAIN sigs |->
     IF i \in ids /\ sigs[i].status \in OpenStatuses
     THEN [sigs[i] EXCEPT !.status = "cancelled",
                          !.last_error = << reason >>,
                          !.executed_price = IF @ = NULL THEN << FZero >> ELSE @,
                          !.executed_size = IF @ = NULL THEN << 0 >> ELSE @]
     ELSE sigs[i]]

(***************************************************************************)
(* One pass of execute_signals, run by an executor.  Each step is one      *)
(* database transaction or one call of the venue, with the computation     *)
(* that leads to it; the steps of passes that overlap interleave.  A       *)
(* storage write either commits or raises (ok); a raise outside the live   *)
(* path's try block ends the pass.  The batch keeps the ids of the rows    *)
(* fetched: the columns the pass reads from them never change.             *)
(***************************************************************************)
next_signal(p) ==
  IF p.idx < Len(p.batch)
  THEN [p EXCEPT !.pc = "loop", !.idx = @ + 1, !.cur = NULL]
  ELSE [p EXCEPT !.pc = "idle", !.runs = @ + 1, !.cur = NULL,
                 !.returned = << p.executed_count >>]

raised(p) == [p EXCEPT !.pc = "idle", !.runs = @ + 1, !.cur = NULL, !.returned = NULL]

\* execute_signals up to the fetch: nothing pending returns 0; a live pass
\* whose client cannot be built falls back to simulate.
FetchPending(e) ==
  /\ pass[e].pc = "idle"
  /\ pass[e].runs < MaxPasses
  /\ e = "admin" => disturbances < MaxDisturbances
  /\ disturbances' = IF e = "admin" THEN disturbances + 1 ELSE disturbances
  /\ \E client_ok \in BOOLEAN :
       pass' = [pass EXCEPT ![e] =
         IF fetch_pending_signals(signals, config.batch_limit) = << >>
         THEN [IdlePass EXCEPT !.runs = pass[e].runs + 1, !.returned = << 0 >>]
         ELSE [IdlePass EXCEPT
                 !.pc = "fetched",
                 !.runs = pass[e].runs,
                 !.mode = IF config.execution_mode = "live" /\ client_ok
                          THEN "live" ELSE "simulate",
                 !.limits = config.risk_limits,
                 !.batch = fetch_pending_signals(signals, config.batch_limit)]]
  /\ UNCHANGED << signals, config, venue_orders >>
  /\ UNCHANGED ledgerVars
  /\ UNCHANGED sizingVars
  /\ UNCHANGED restVars

\* The exposure and the bankroll, read once.
ReadRisk(e) ==
  /\ pass[e].pc = "fetched"
  /\ \E risk_state \in { compute_existing_risk(signals, positions) } :
       pass' = [pass EXCEPT ![e] =
         [@ EXCEPT !.pc = "loop", !.idx = 1,
                   !.total_risk = risk_state.total,
                   !.per_market = risk_state.per_market,
                   !.bankroll = get_current_bankroll_usd(account_pnl),
                   !.start = risk_state]]
  /\ UNCHANGED << signals, config, venue_orders, disturbances >>
  /\ UNCHANGED ledgerVars
  /\ UNCHANGED sizingVars
  /\ UNCHANGED restVars

\* The loop body up to its first effect: the signal is ignored, or marked
\* simulated, or its order goes to the venue (which accepts it or raises).
Decide(e) ==
  /\ pass[e].pc = "loop"
  /\ \E sig_id \in { pass[e].batch[pass[e].idx] } :
     \E d \in { dispatch_decision(signals[sig_id], pass[e].bankroll, pass[e].limits,
                                  pass[e].per_market[signals[sig_id].market_ticker],
                                  pass[e].total_risk) } :
     \E ok \in BOOLEAN, reply \in VenueReplies :
       LET p == pass[e]
           sig == signals[sig_id]
           order == create_order(sig_id, sig, d.size)
           live == live_execution(sig, d.size, place_order_result(order, reply))
           accepted == d.ignore = NULL /\ p.mode = "live" /\ reply # "raise"
           venue_raises == d.ignore = NULL /\ p.mode = "live" /\ reply = "raise"
           raises == (IF ok THEN 0 ELSE 1) + (IF venue_raises THEN 1 ELSE 0)
       IN  /\ ~ok => ~accepted
           /\ disturbances + raises <= MaxDisturbances
           /\ disturbances' = disturbances + raises
           /\ signals' =
                IF ~ok \/ accepted THEN signals
                ELSE IF d.ignore # NULL
                THEN update_signal_execution(signals, sig_id, "ignored", p.mode,
                                             NULL, NULL, d.ignore)
                ELSE IF p.mode = "simulate"
                THEN update_signal_execution(signals, sig_id, "simulated", p.mode,
                                             << sig.p_mkt >>, << d.size >>, NULL)
                ELSE update_signal_execution(signals, sig_id, "error", p.mode,
                                             NULL, NULL, << "place_order raised" >>)
           /\ venue_orders' = IF accepted THEN Append(venue_orders, order) ELSE venue_orders
           /\ pass' = [pass EXCEPT ![e] =
                IF accepted
                THEN [p EXCEPT !.pc = "placed",
                               !.cur = [signal_id |-> sig_id, risk_new |-> d.risk_new,
                                        status |-> live.status,
                                        size |-> live.executed_size,
                                        price |-> live.executed_price]]
                ELSE IF ~ok THEN raised(p)
                ELSE IF d.ignore = NULL /\ p.mode = "simulate"
                THEN [p EXCEPT !.pc = "marked",
                               !.cur = [signal_id |-> sig_id, risk_new |-> d.risk_new,
                                        status |-> "simulated",
                                        size |-> d.size, price |-> sig.p_mkt]]
                ELSE next_signal(p)]
  /\ UNCHANGED config
  /\ UNCHANGED ledgerVars
  /\ UNCHANGED sizingVars
  /\ UNCHANGED restVars

\* Live path: the status the venue reported is written to the signal; if
\* the write raises, the handler marks the signal error and moves on.
WriteStatus(e) ==
  /\ pass[e].pc = "placed"
  /\ \E ok \in BOOLEAN, ok_handler \in BOOLEAN :
       LET p == pass[e]
           raises == IF ok THEN 0 ELSE IF ok_handler THEN 1 ELSE 2
       IN  /\ ok => ok_handler
           /\ disturbances + raises <= MaxDisturbances
           /\ disturbances' = disturbances + raises
           /\ signals' =
                IF ok
                THEN update_signal_execution(signals, p.cur.signal_id, p.cur.status, p.mode,
                                             << p.cur.price >>, << p.cur.size >>, NULL)
                ELSE IF ok_handler
                THEN update_signal_execution(signals, p.cur.signal_id, "error", p.mode,
                                             NULL, NULL, << "update raised" >>)
                ELSE signals
           /\ pass' = [pass EXCEPT ![e] =
                IF ok THEN [p EXCEPT !.pc = "marked"]
                ELSE IF ok_handler THEN next_signal(p)
                ELSE raised(p)]
  /\ UNCHANGED << config, venue_orders >>
  /\ UNCHANGED ledgerVars
  /\ UNCHANGED sizingVars
  /\ UNCHANGED restVars

\* record_trade for the signal just marked, then the running figures and
\* the count (the end of the loop body).
RecordTrade(e) ==
  /\ pass[e].pc = "marked"
  /\ record_trade([signal_id |-> pass[e].cur.signal_id,
                   market_ticker |-> signals[pass[e].cur.signal_id].market_ticker,
                   side |-> signals[pass[e].cur.signal_id].side,
                   size |-> pass[e].cur.size,
                   price |-> pass[e].cur.price,
                   direction |-> "buy"])
  /\ pass' = [pass EXCEPT ![e] =
       next_signal(
         [@ EXCEPT !.total_risk = add_dispatched_risk(@, pass[e].cur.risk_new),
                   !.per_market[signals[pass[e].cur.signal_id].market_ticker] =
                      add_dispatched_risk(@, pass[e].cur.risk_new),
                   !.executed_count = @ + 1,
                   !.dispatched = Append(@,
                      [signal_id |-> pass[e].cur.signal_id,
                       market_ticker |-> signals[pass[e].cur.signal_id].market_ticker,
                       size |-> pass[e].cur.size,
                       risk_new |-> pass[e].cur.risk_new])])]
  /\ UNCHANGED << signals, config, venue_orders, disturbances, account_pnl, last_yes >>
  /\ UNCHANGED sizingVars
  /\ UNCHANGED restVars

\* record_trade raises: nothing of it is stored.  In simulate the raise
\* leaves execute_signals; in live the handler marks the signal error.
RecordTradeRaises(e) ==
  /\ pass[e].pc = "marked"
  /\ \E ok_handler \in BOOLEAN :
       LET p == pass[e]
           raises == IF p.mode = "live" /\ ~ok_handler THEN 2 ELSE 1
       IN  /\ disturbances + raises <= MaxDisturbances
           /\ disturbances' = disturbances + raises
           /\ signals' =
                IF p.mode = "live" /\ ok_handler
                THEN update_signal_execution(signals, p.cur.signal_id, "error", p.mode,
                                             NULL, NULL, << "record_trade raised" >>)
                ELSE signals
           /\ pass' = [pass EXCEPT ![e] =
                IF p.mode = "live" /\ ok_handler THEN next_signal(p) ELSE raised(p)]
  /\ UNCHANGED << config, venue_orders >>
  /\ UNCHANGED ledgerVars
  /\ UNCHANGED sizingVars
  /\ UNCHANGED restVars

\* POST /signals/cancel_open
cancel_open_signals ==
  /\ disturbances < MaxDisturbances
  /\ disturbances' = disturbances + 1
  /\ signals' = cancel_rows(signals, DOMAIN signals, "cancelled via dashboard")
  /\ UNCHANGED << config, pass, venue_orders >>
  /\ UNCHANGED ledgerVars
  /\ UNCHANGED sizingVars
  /\ UNCHANGED restVars

\* cancel_stale_signals, the rows created before the cutoff being the first
\* `stale` rows.
cancel_stale_signals(stale) ==
  /\ disturbances < MaxDisturbances
  /\ disturbances' = disturbances + 1
  /\ signals' = cancel_rows(signals, 1..stale, "auto-cancelled stale signal")
  /\ UNCHANGED << config, pass, venue_orders >>
  /\ UNCHANGED ledgerVars
  /\ UNCHANGED sizingVars
  /\ UNCHANGED restVars

(***************************************************************************)
(* Spec: the signals of one generation run, all pending, executed by up to *)
(* MaxPasses passes of the scheduler, with up to MaxDisturbances           *)
(* interventions of the environment at any moment: a pass triggered        *)
(* through the API (which may overlap the scheduler's), a cancellation, a  *)
(* storage write or a venue call that raises.  The batches put two signals *)
(* on one market, or on two; under TightLimits the caps bind on the second *)
(* signal; the last batch starts with a signal that carries no risk.       *)
(***************************************************************************)
NewSignal(market_ticker, side, cents) ==
  [market_ticker |-> market_ticker, side |-> side, p_mkt |-> Dec(cents, 100), size |-> 1,
   status |-> "pending", execution_mode |-> NULL, executed_price |-> NULL,
   executed_size |-> NULL, last_error |-> NULL]

SignalBatches ==
  { << NewSignal("MKT-A", "yes", 35), NewSignal("MKT-A", "yes", 35) >>,
    << NewSignal("MKT-A", "yes", 35), NewSignal("MKT-A", "no", 7) >>,
    << NewSignal("MKT-B", "no", 80), NewSignal("MKT-A", "yes", 35) >>,
    << NewSignal("MKT-A", "no", 100), NewSignal("MKT-A", "yes", 35) >> }

ExecConfigs ==
  { [execution_mode |-> mode, risk_limits |-> limits, batch_limit |-> batch_limit] :
      mode \in {"simulate", "live"}, limits \in {get_risk_limits, TightLimits} }

Init ==
  /\ signals \in SignalBatches
  /\ config \in ExecConfigs
  /\ pass = [e \in Executors |-> IdlePass]
  /\ venue_orders = << >>
  /\ disturbances = 0
  /\ LedgerEmpty
  /\ last_yes = [mk \in Markets |-> << >>]
  /\ SizingIdle
  /\ RestIdle

Next ==
  \/ \E e \in Executors : FetchPending(e)
  \/ \E e \in Executors : ReadRisk(e)
  \/ \E e \in Executors : Decide(e)
  \/ \E e \in Executors : WriteStatus(e)
  \/ \E e \in Executors : RecordTrade(e)
  \/ \E e \in Executors : RecordTradeRaises(e)
  \/ cancel_open_signals
  \/ \E stale \in 0..Len(signals) : cancel_stale_signals(stale)

Spec == Init /\ [][Next]_vars

(***************************************************************************)
(* Properties of the sizing function, stated on the arguments and the      *)
(* result of the call SpecSizing makes.  All arithmetic is the program's   *)
(* (binary64), as in the function itself.                                  *)
(***************************************************************************)
SizingDone == szOut # NoResult
SizeOut == szOut[1].size
SzRisk == IF szIn.side = "yes" THEN szIn.price ELSE FSub(FOne, szIn.price)
SzPerTradeCap ==
  FMin(szIn.risk_limits.max_risk_per_trade, FMul(szIn.bankroll, szIn.risk_fraction))
SzMarketHeadroom == FSub(szIn.risk_limits.max_risk_per_market, szIn.per_market_risk)
SzTotalHeadroom == FSub(szIn.risk_limits.max_risk_total, szIn.total_risk)
SzHeadroom == FMin(SzMarketHeadroom, SzTotalHeadroom)
SzMaxRisk == FMin(SzPerTradeCap, SzHeadroom)
SzTarget == FMin(FromInt(3), SzMaxRisk)
SzCeil == FCeilInt(FDiv(SzTarget, SzRisk))
SzOvershoots == FLt(SzMaxRisk, FMul(FromInt(SzCeil), SzRisk))
SzNoPriorExposure == FIsZero(szIn.per_market_risk) /\ FIsZero(szIn.total_risk)
SzRiskTaken == FMul(FromInt(SizeOut), SzRisk)

SizingFormulaHolds ==
  (SizingDone /\ FLt(FZero, SzRisk) /\ FLt(FZero, SzMaxRisk)) =>
     SizeOut = Min2(1000, IF SzOvershoots THEN FFloorDivInt(SzMaxRisk, SzRisk) ELSE SzCeil)

SizingInstanceYesHalf ==
  (SizingDone /\ SzNoPriorExposure /\ szIn.side = "yes" /\ szIn.price = Dec(50, 100)) =>
     SizeOut = 6

\* C6: with r the per-contract risk (price for YES, 1 - price for NO), m the
\* smallest of the per-trade cap, bankroll x fraction, the market headroom
\* and the total headroom, t = min(3, m) and s = ceil(t / r), a call with
\* r > 0 and m > 0 returns min(1000, s if s x r <= m else floor(m / r)); with
\* no prior exposure YES at 0.5 gives 6 and NO at 0.8 gives 16 (the float
\* 1.0 - 0.8 lies just below 0.2, so 3 / r lies just above 15).
C6_SizingFormula ==
  /\ SizingFormulaHolds
  /\ SizingInstanceYesHalf
  /\ (SizingDone /\ SzNoPriorExposure /\ szIn.side = "no" /\ szIn.price = Dec(80, 100)) =>
        SizeOut = 16

\* C6 as stated: the same formula and YES instance, with NO at 0.8 giving
\* ceil(3 / 0.2) = 15.
C6_AsStated ==
  /\ SizingFormulaHolds
  /\ SizingInstanceYesHalf
  /\ (SizingDone /\ SzNoPriorExposure /\ szIn.side = "no" /\ szIn.price = Dec(80, 100)) =>
        SizeOut = 15

\* C6 witness: a call with r > 0 and m > 0 in which s x r exceeds m and the
\* function returned the positive floor(m / r) = s - 1.
C6_Witness ==
  /\ SizingDone /\ FLt(FZero, SzRisk) /\ FLt(FZero, SzMaxRisk)
  /\ SzOvershoots
  /\ SizeOut = FFloorDivInt(SzMaxRisk, SzRisk)
  /\ SizeOut = SzCeil - 1
  /\ SizeOut > 0

\* C7: if the smallest of the caps and headrooms is not negative the risk of
\* the returned size, size x r, does not exceed it; if it is <= 0 the size
\* is 0; and if a headroom is that smallest quantity and lies below the $3
\* target (and r > 0) the size is floor(headroom / r), that is the count n
\* with n x r <= headroom < (n + 1) x r.
C7_CappedSizing ==
  SizingDone =>
    /\ FLe(FZero, SzMaxRisk) => FLe(SzRiskTaken, SzMaxRisk)
    /\ FLe(SzMaxRisk, FZero) => SizeOut = 0
    /\ ( /\ FLe(SzHeadroom, SzPerTradeCap)
         /\ FLt(FZero, SzHeadroom) /\ FLt(SzHeadroom, FromInt(3))
         /\ FLt(FZero, SzRisk) ) =>
          /\ FLe(SzRiskTaken, SzHeadroom)
          /\ FLt(SzHeadroom, FMul(FromInt(SizeOut + 1), SzRisk))

\* C7 as stated: size x r <= min(caps and headrooms) for every input, the
\* inputs whose prior exposure already exceeds a cap included.
C7_AsStated == SizingDone => FLe(SzRiskTaken, SzMaxRisk)

\* C7 witness: the total-cap headroom is the binding quantity, below $3, and
\* the function returned a positive size that uses it up to less than one
\* contract.
C7_Witness ==
  /\ SizingDone
  /\ SzTotalHeadroom = SzMaxRisk
  /\ FLt(SzTotalHeadroom, SzMarketHeadroom)
  /\ FLt(SzTotalHeadroom, FromInt(3))
  /\ SizeOut > 0
  /\ FLe(SzRiskTaken, SzTotalHeadroom)
  /\ FLt(SzTotalHeadroom, FMul(FromInt(SizeOut + 1), SzRisk))

(***************************************************************************)
(* Properties of the ledger, stated on the last operations of the history  *)
(* and the tables they left.                                               *)
(***************************************************************************)
LogLen == Len(ledgerLog)
LastOp == ledgerLog[LogLen]
PrevOp == ledgerLog[LogLen - 1]
LastKey == << LastOp.trade.market_ticker, LastOp.trade.side >>
LastRow == positions[LastKey]

\* The last two operations were a buy of n at a on a flat YES position and
\* a sell of n at b on the same position.
RoundTripDone ==
  /\ LogLen >= 2
  /\ PrevOp.op = "record_trade" /\ LastOp.op = "record_trade"
  /\ PrevOp.trade.side = "yes" /\ LastOp.trade.side = "yes"
  /\ PrevOp.trade.market_ticker = LastOp.trade.market_ticker
  /\ PrevOp.before.size = 0
  /\ PrevOp.trade.direction = "buy" /\ LastOp.trade.direction = "sell"
  /\ PrevOp.trade.size = LastOp.trade.size

RoundTripRows ==
  /\ LastRow.size = 0
  /\ Len(trades) >= 2
  /\ trades[Len(trades) - 1] = PrevOp.trade
  /\ trades[Len(trades)] = LastOp.trade

RoundTripN == FromInt(LastOp.trade.size)
RoundTripStoredAvg == FDiv(FMul(PrevOp.trade.price, RoundTripN), RoundTripN)
RoundTripNominal ==
  FAdd(PrevOp.before.realized_pnl,
       FMul(FSub(LastOp.trade.price, PrevOp.trade.price), RoundTripN))
RoundingTolerance == Dec(1, 2^30)

\* C8: a buy of n at a on a flat YES position followed by a sell of n at b
\* leaves size 0 and two more trade rows, and adds (b - avg) x n to the
\* realized PnL, where avg = (a x n) / n is the average the buy stored; in
\* float arithmetic that is (b - a) x n up to rounding (within 2^-30 here).
C8_RoundTrip ==
  RoundTripDone =>
    /\ RoundTripRows
    /\ LastRow.realized_pnl =
         FAdd(PrevOp.before.realized_pnl,
              FMul(FSub(LastOp.trade.price, RoundTripStoredAvg), RoundTripN))
    /\ FLe(FAbs(FSub(LastRow.realized_pnl, RoundTripNominal)), RoundingTolerance)

\* C8 as stated: the realized PnL grows by exactly (b - a) x n.
C8_AsStated ==
  RoundTripDone => (RoundTripRows /\ LastRow.realized_pnl = RoundTripNominal)

\* C8 witness: a round trip of 10 contracts, bought at 0.20 and sold at 0.90,
\* on a flat row that already carried realized PnL, which grew by 7.
C8_Witness ==
  /\ RoundTripDone
  /\ PrevOp.before.held /\ PrevOp.before.realized_pnl = FromInt(7)
  /\ LastOp.trade.size = 10
  /\ PrevOp.trade.price = Dec(20, 100) /\ LastOp.trade.price = Dec(90, 100)
  /\ LastRow.size = 0 /\ LastRow.realized_pnl = FromInt(14)

LastDelta == trade_size_delta(LastOp.trade)
LastOpposite ==
  \/ (LastOp.before.size > 0 /\ LastDelta < 0)
  \/ (LastOp.before.size < 0 /\ LastDelta > 0)
LastCloses == LastOpposite /\ AbsInt(LastDelta) <= AbsInt(LastOp.before.size)
LastFlips == LastOpposite /\ AbsInt(LastDelta) > AbsInt(LastOp.before.size)
LastBlend ==
  FDiv(FAdd(FMul(LastOp.before.avg_entry_price, FromInt(AbsInt(LastOp.before.size))),
            FMul(LastOp.trade.price, FromInt(AbsInt(LastDelta)))),
       FromInt(AbsInt(LastOp.before.size) + AbsInt(LastDelta)))

\* C9: record_trade leaves the average entry price unchanged on a partial or
\* exact close; on a same-direction extension the average becomes the
\* volume-weighted blend of old and new cost; on a flip it becomes the trade
\* price and the size the excess in the opposite direction; so the average
\* changes only on an extension or a flip.
C9_AverageEntryPrice ==
  (LogLen >= 1 /\ LastOp.op = "record_trade") =>
    /\ LastCloses =>
         /\ LastRow.avg_entry_price = LastOp.before.avg_entry_price
         /\ LastRow.size = LastOp.before.size + LastDelta
    /\ ~LastOpposite =>
         /\ LastRow.avg_entry_price = LastBlend
         /\ LastRow.size = LastOp.before.size + LastDelta
    /\ LastFlips =>
         /\ LastRow.avg_entry_price = LastOp.trade.price
         /\ AbsInt(LastRow.size) = AbsInt(LastDelta) - AbsInt(LastOp.before.size)
         /\ (LastRow.size > 0) = (LastDelta > 0)
    /\ LastRow.avg_entry_price # LastOp.before.avg_entry_price => (~LastOpposite \/ LastFlips)

\* C9 witness: a partial close at a price other than the average entry
\* price, which left the average where it was.
C9_Witness ==
  /\ LogLen >= 1 /\ LastOp.op = "record_trade"
  /\ LastOpposite /\ AbsInt(LastDelta) < AbsInt(LastOp.before.size)
  /\ LastOp.trade.price # LastOp.before.avg_entry_price
  /\ LastRow.avg_entry_price = LastOp.before.avg_entry_price
  /\ LastRow.size # 0

\* C10: realized PnL only accumulates: every operation leaves the realized
\* PnL stored for a (market, side) as it was, or is a record_trade on that
\* position that adds its realized delta to it.
C10_RealizedAccumulates ==
  [][\A key \in PosKeys :
       \/ positions'[key].realized_pnl = positions[key].realized_pnl
       \/ /\ Len(ledgerLog') = Len(ledgerLog) + 1
          /\ ledgerLog'[Len(ledgerLog')].op = "record_trade"
          /\ << ledgerLog'[Len(ledgerLog')].trade.market_ticker,
                ledgerLog'[Len(ledgerLog')].trade.side >> = key
          /\ positions'[key].realized_pnl =
               FAdd(positions[key].realized_pnl,
                    ledgerLog'[Len(ledgerLog')].change.realized_delta)]_vars

(***************************************************************************)
(* Properties of signal execution, stated on the signals table, the        *)
(* ledger, the venue's orders and each pass's record of what it read and   *)
(* dispatched.                                                             *)
(***************************************************************************)
TerminalStatuses == {"ignored", "simulated", "error", "cancelled", "filled"}
ListedTransitions ==
  ({"pending"} \X {"ignored", "simulated", "sent", "error", "cancelled"})
    \cup ({"sent"} \X {"filled", "cancelled", "error"})
DispatchedStatuses == {"simulated", "sent"}

\* C1: a signal whose status is ignored, simulated, error, cancelled or
\* filled keeps that status in every later step, whichever operation takes
\* the step (a pass, an overlapping pass, either cancellation).
C1_TerminalSticky ==
  [][\A i \in DOMAIN signals :
       signals[i].status \in TerminalStatuses => signals'[i].status = signals[i].status]_vars

\* The running figures of a pass as the property describes them: the
\* exposure read at the start of the batch plus, in order, the risk of each
\* of its first n dispatches (for a market: of those on that market).
RECURSIVE RunningTotal(_, _)
RunningTotal(e, n) ==
  IF n = 0 THEN pass[e].start.total
  ELSE FAdd(RunningTotal(e, n - 1), pass[e].dispatched[n].risk_new)

RECURSIVE RunningMarket(_, _, _)
RunningMarket(e, mk, n) ==
  IF n = 0 THEN pass[e].start.per_market[mk]
  ELSE IF pass[e].dispatched[n].market_ticker = mk
       THEN FAdd(RunningMarket(e, mk, n - 1), pass[e].dispatched[n].risk_new)
       ELSE RunningMarket(e, mk, n - 1)

\* C2: for every signal a pass dispatched (its loop iteration reached the
\* update of the running figures), the new risk is the per-contract risk
\* times the size and is at most max_risk_per_trade, and the market's and
\* the total running risk after adding it are at most max_risk_per_market
\* and max_risk_total.
C2_CapsAtDispatch ==
  \A e \in Executors : \A n \in DOMAIN pass[e].dispatched :
    LET d == pass[e].dispatched[n]
        sig == signals[d.signal_id]
    IN  /\ d.risk_new = FMul(risk_per_contract_of(sig.side, sig.p_mkt), FromInt(d.size))
        /\ FLe(d.risk_new, pass[e].limits.max_risk_per_trade)
        /\ FLe(RunningMarket(e, d.market_ticker, n), pass[e].limits.max_risk_per_market)
        /\ FLe(RunningTotal(e, n), pass[e].limits.max_risk_total)

\* A pass has dispatched two signals on one market, and the market has no
\* room left for another dispatch like the first.
C2_Witness ==
  \E e \in Executors :
    /\ Len(pass[e].dispatched) = 2
    /\ pass[e].dispatched[1].market_ticker = pass[e].dispatched[2].market_ticker
    /\ FLt(pass[e].limits.max_risk_per_market,
           FAdd(RunningMarket(e, pass[e].dispatched[2].market_ticker, 2),
                pass[e].dispatched[1].risk_new))

TradesOf(i) == { k \in DOMAIN trades : trades[k].signal_id = i }
OrdersOf(i) == { k \in DOMAIN venue_orders : venue_orders[k].signal_id = i }

RECURSIVE BoughtSize(_, _)
BoughtSize(key, n) ==
  IF n = 0 THEN 0
  ELSE BoughtSize(key, n - 1)
         + (IF << trades[n].market_ticker, trades[n].side >> = key THEN trades[n].size ELSE 0)

NoPassRunning == \A e \in Executors : pass[e].pc = "idle"

\* C3: a signal has a dispatched status (simulated, sent) if and only if a
\* Trade row refers to it and the position of its market and side holds the
\* trades recorded for it.  Stated here for the states between passes only,
\* where no dispatch is part-way through.
C3_SignalTradeInSync ==
  NoPassRunning =>
    \A i \in DOMAIN signals :
      (signals[i].status \in DispatchedStatuses)
        <=> /\ TradesOf(i) # {}
            /\ positions[<< signals[i].market_ticker, signals[i].side >>].held
            /\ positions[<< signals[i].market_ticker, signals[i].side >>].size
                 = BoughtSize(<< signals[i].market_ticker, signals[i].side >>, Len(trades))

\* C4: each signal has at most one order at the venue and at most one Trade
\* row, over all passes of both executors.
C4_DispatchedOnce ==
  \A i \in DOMAIN signals : Cardinality(OrdersOf(i)) <= 1 /\ Cardinality(TradesOf(i)) <= 1

\* C5: every change of a signal's status is one of pending -> ignored,
\* simulated, sent, error, cancelled and sent -> filled, cancelled, error.
C5_ListedTransitions ==
  [][\A i \in DOMAIN signals :
       signals'[i].status # signals[i].status
         => << signals[i].status, signals'[i].status >> \in ListedTransitions]_vars

(***************************************************************************)
(* record_trade under concurrent writers (portfolio/pnl.py).  A            *)
(* transaction inserts the trade, reads the position row with a plain      *)
(* SELECT, and upserts the size and the average it computed from the row   *)
(* it read; the connection runs at the database's default isolation level  *)
(* (read committed): the read sees the rows committed so far and takes no  *)
(* lock, the upsert waits for a concurrent writer of the same row and then *)
(* applies to the row that writer committed.  The steps of a transaction   *)
(* are therefore its read and its commit.  The passes buy, the exit pass   *)
(* sells the whole position it finds.                                      *)
(***************************************************************************)
Writers == {"execution", "admin", "exit"}

writer_trades(w) ==
  IF w # "exit" THEN { LedgerTrade("yes", "buy", size, c) : size \in LedgerSizes, c \in {7, 20} }
  ELSE IF positions[<< "MKT-A", "yes" >>].size > 0
       THEN { LedgerTrade("yes", "sell", positions[<< "MKT-A", "yes" >>].size, 90) }
       ELSE { }

BeginRecordTrade(w) ==
  /\ txn[w].pc = "idle"
  /\ \E trade \in writer_trades(w) :
       txn' = [txn EXCEPT ![w] =
                 [pc |-> "open", trade |-> trade,
                  row |-> positions[<< trade.market_ticker, trade.side >>]]]
  /\ UNCHANGED << cycle, fnIn, fnOut, ingest >>
  /\ UNCHANGED ledgerVars
  /\ UNCHANGED sizingVars
  /\ UNCHANGED execVars

CommitRecordTrade(w) ==
  /\ txn[w].pc = "open"
  /\ \E chg \in { position_change(txn[w].row, txn[w].trade.side,
                                  trade_size_delta(txn[w].trade), txn[w].trade.price) } :
       /\ trades' = Append(trades, txn[w].trade)
       /\ positions' = upsert_position(positions, txn[w].trade.market_ticker,
                                       txn[w].trade.side, chg)
       /\ ledgerLog' = Append(ledgerLog,
            [op |-> "record_trade", trade |-> txn[w].trade,
             before |-> txn[w].row, change |-> chg])
  /\ txn' = [txn EXCEPT ![w] = [pc |-> "done"]]
  /\ UNCHANGED << account_pnl, last_yes, cycle, fnIn, fnOut, ingest >>
  /\ UNCHANGED sizingVars
  /\ UNCHANGED execVars

WritersInit ==
  /\ LedgerEmpty
  /\ last_yes = LatestPrices
  /\ SizingIdle
  /\ ExecIdle
  /\ txn = [w \in Writers |-> [pc |-> "idle"]]
  /\ cycle = << >> /\ fnIn = << >> /\ fnOut = << >> /\ ingest = << >>

WritersNext == \E w \in Writers : BeginRecordTrade(w) \/ CommitRecordTrade(w)

SpecWriters == WritersInit /\ [][WritersNext]_vars

RECURSIVE SignedSize(_, _)
SignedSize(key, n) ==
  IF n = 0 THEN 0
  ELSE SignedSize(key, n - 1)
         + (IF << trades[n].market_ticker, trades[n].side >> = key
            THEN trade_size_delta(trades[n]) ELSE 0)

\* C11: whenever no record_trade transaction is open, the position of every
\* (market, side) has the size that the Trade rows of that (market, side)
\* add up to, buys counted positive and sells negative.
C11_PositionsFromTrades ==
  (\A w \in Writers : txn[w].pc # "open")
    => \A key \in PosKeys : positions[key].size = SignedSize(key, Len(trades))

(***************************************************************************)
(* Properties of single steps of a pass.  StepOf(e) holds of a step that   *)
(* executor e takes from the top of its loop without any write or venue    *)
(* call raising; CurrentSignal(e) is the signal the step handles.          *)
(***************************************************************************)
CurrentSignal(e) == pass[e].batch[pass[e].idx]

DecidesQuietly(e) ==
  /\ pass[e].pc = "loop"
  /\ pass'[e] # pass[e]
  /\ disturbances' = disturbances

SizedAtLoop(e) ==
  compute_order_size_for_signal(signals[CurrentSignal(e)].side, signals[CurrentSignal(e)].p_mkt,
     pass[e].bankroll, pass[e].limits,
     pass[e].per_market[signals[CurrentSignal(e)].market_ticker], pass[e].total_risk,
     get_max_risk_fraction_per_trade)

MovesOn(e) ==
  /\ pass'[e].total_risk = pass[e].total_risk
  /\ pass'[e].per_market = pass[e].per_market
  /\ pass'[e].executed_count = pass[e].executed_count
  /\ IF pass[e].idx < Len(pass[e].batch)
     THEN pass'[e].pc = "loop" /\ pass'[e].idx = pass[e].idx + 1
     ELSE pass'[e].pc = "idle" /\ pass'[e].returned = << pass[e].executed_count >>

\* C12: a step that handles a signal whose computed size is 0 marks the
\* signal ignored with a reason, records no Trade and submits no order,
\* leaves the running risk figures and the executed count as they were, and
\* goes on to the next signal of the batch (or returns the count after the
\* last).
C12_ZeroSizeIgnored ==
  [][\A e \in Executors :
       (DecidesQuietly(e) /\ SizedAtLoop(e).size <= 0)
         => /\ signals'[CurrentSignal(e)].status = "ignored"
            /\ signals'[CurrentSignal(e)].last_error # NULL
            /\ trades' = trades
            /\ positions' = positions
            /\ venue_orders' = venue_orders
            /\ MovesOn(e)]_vars

\* A signal without risk (NO at 1.00) has been ignored for its size and the
\* pass has gone on to the signal after it.
C12_Witness ==
  \E e \in Executors :
    /\ pass[e].pc = "loop"
    /\ pass[e].idx = 2
    /\ signals[pass[e].batch[1]].status = "ignored"
    /\ signals[pass[e].batch[1]].last_error = << "Insufficient risk budget for dynamic sizing" >>
    /\ FLe(risk_per_contract_of(signals[pass[e].batch[1]].side, signals[pass[e].batch[1]].p_mkt), FZero)
    /\ pass[e].executed_count = 0
    /\ pass[e].total_risk = pass[e].start.total

\* C13: in live mode a signal whose order submission raises is marked error
\* and nothing else is done for it; conversely, a signal marked error has no
\* order accepted by the venue.  The formula is the converse: the venue
\* holds no order of a signal whose status is error.
C13_ErrorOnlyWithoutOrder ==
  \A i \in DOMAIN signals : signals[i].status = "error" => OrdersOf(i) = {}

\* C14: in simulate mode no order reaches the venue, and a signal marked
\* simulated carries its p_mkt as executed price and has exactly one Trade, a
\* buy of that price and of the executed size.  Stated for the states
\* between passes, where no dispatch is part-way through.
C14_SimulatedHasOneTrade ==
  (config.execution_mode = "simulate" /\ NoPassRunning)
    => /\ venue_orders = << >>
       /\ \A i \in DOMAIN signals :
            signals[i].status = "simulated"
              => /\ signals[i].executed_price = << signals[i].p_mkt >>
                 /\ Cardinality(TradesOf(i)) = 1
                 /\ \A k \in TradesOf(i) :
                      /\ trades[k].direction = "buy"
                      /\ trades[k].price = signals[i].p_mkt
                      /\ << trades[k].size >> = signals[i].executed_size

(***************************************************************************)
(* The fast cycle of the scheduler.  minute_cycle calls its six stages in  *)
(* turn, each inside its own try/except; run_all_backtests, the fourth,    *)
(* first runs the backtests and the calibration with nothing around them   *)
(* and then five stages of its own, each inside a try/except.  Whether a   *)
(* stage raises is the environment's choice.                               *)
(***************************************************************************)
minute_stages ==
  << "ingest_recent_data", "generate_signals", "execute_signals",
     "run_all_backtests", "process_take_profit_exits", "sync_positions" >>

refresh_stages ==
  << "backtests_and_calibration", "generate_signals", "execute_signals",
     "process_take_profit_exits", "sync_positions", "snapshot_account_pnl" >>

Returned == Len(minute_stages) + 1

\* try: stage() except Exception: LOGGER.exception(...) with the exception
\* re-raised.
reraising_try(ok) == IF ok THEN "next" ELSE "raise"

\* try: stage() except Exception: LOGGER.exception(...)
logging_try(ok) == "next"

\* minute_cycle after stage pc ended (ok or raising) inside its try/except.
after_stage(c, name, ok) ==
  [c EXCEPT !.failed = IF ok THEN @ ELSE @ \cup {name},
            !.inner = 0,
            !.pc = IF logging_try(ok) = "next" THEN c.pc + 1 ELSE Returned,
            !.escaped = logging_try(ok) # "next"]

RunStage ==
  /\ cycle.pc < Returned
  /\ cycle.inner = 0
  /\ minute_stages[cycle.pc] # "run_all_backtests"
  /\ \E ok \in BOOLEAN :
       cycle' = after_stage([cycle EXCEPT !.attempted = Append(@, minute_stages[cycle.pc])],
                            minute_stages[cycle.pc], ok)
  /\ UNCHANGED << txn, fnIn, fnOut, ingest >>
  /\ UNCHANGED ledgerVars
  /\ UNCHANGED sizingVars
  /\ UNCHANGED execVars

EnterRefresh ==
  /\ cycle.pc < Returned
  /\ cycle.inner = 0
  /\ minute_stages[cycle.pc] = "run_all_backtests"
  /\ cycle' = [cycle EXCEPT !.attempted = Append(@, "run_all_backtests"), !.inner = 1]
  /\ UNCHANGED << txn, fnIn, fnOut, ingest >>
  /\ UNCHANGED ledgerVars
  /\ UNCHANGED sizingVars
  /\ UNCHANGED execVars

\* One stage of run_all_backtests: an exception of the first leaves
\* run_all_backtests, an exception of a later one is logged there.
RefreshStep ==
  /\ cycle.inner > 0
  /\ \E ok \in BOOLEAN :
       LET c == [cycle EXCEPT !.refreshed = Append(@, refresh_stages[cycle.inner]),
                              !.refresh_failed = IF ok THEN @
                                                 ELSE @ \cup {refresh_stages[cycle.inner]}]
       IN  cycle' = IF cycle.inner = 1 /\ ~ok
                    THEN after_stage(c, "run_all_backtests", FALSE)
                    ELSE IF cycle.inner = Len(refresh_stages)
                    THEN after_stage(c, "run_all_backtests", TRUE)
                    ELSE [c EXCEPT !.inner = @ + 1]
  /\ UNCHANGED << txn, fnIn, fnOut, ingest >>
  /\ UNCHANGED ledgerVars
  /\ UNCHANGED sizingVars
  /\ UNCHANGED execVars

CycleInit ==
  /\ LedgerEmpty
  /\ last_yes = LatestPrices
  /\ SizingIdle
  /\ ExecIdle
  /\ cycle = [pc |-> 1, inner |-> 0, attempted |-> << >>, failed |-> {},
              refreshed |-> << >>, refresh_failed |-> {}, escaped |-> FALSE]
  /\ txn = << >> /\ fnIn = << >> /\ fnOut = << >> /\ ingest = << >>

CycleNext == RunStage \/ EnterRefresh \/ RefreshStep

SpecCycle == CycleInit /\ [][CycleNext]_vars

\* C15: the stages of minute_cycle are attempted in the order ingest,
\* generate, execute, backtest refresh, exits, position sync; whichever of
\* them raise, every stage before the current one has been attempted, the
\* cycle returns only after all six were, and no exception leaves
\* minute_cycle.
C15_StagesAttemptedInOrder ==
  /\ ~cycle.escaped
  /\ Len(cycle.attempted) = (IF cycle.inner > 0 THEN cycle.pc ELSE cycle.pc - 1)
  /\ cycle.attempted = SubSeq(minute_stages, 1, Len(cycle.attempted))
  /\ cycle.pc = Returned => cycle.attempted = minute_stages

\* The cycle has returned after every one of its six stages raised.
C15_Witness ==
  /\ cycle.pc = Returned
  /\ cycle.failed = { minute_stages[i] : i \in DOMAIN minute_stages }
  /\ cycle.attempted = minute_stages

(***************************************************************************)
(* The running scheduler.  main() runs minute_cycle every minute, for      *)
(* ever; a cycle generates signals and executes the pending ones (the      *)
(* daily job repeats the same stages).  execute_signals either raises      *)
(* before its first write or gives every signal of its batch a status.     *)
(* The age of a signal is counted in minutes up to max_age_minutes + 1,    *)
(* which stands for every greater age.  Nothing the scheduler runs calls   *)
(* cancel_stale_signals.                                                   *)
(***************************************************************************)
max_age_minutes == 10
MaxGenerated == 2
PassOutcomes == {"ignored", "simulated"}

older(age) == IF age > max_age_minutes THEN age ELSE age + 1

\* A minute has passed: the cycle starts, and generate_signals may insert a
\* signal.
StartMinuteCycle ==
  /\ cycle.pc = "sleep"
  /\ \E new \in BOOLEAN :
       /\ new => Len(signals) < MaxGenerated
       /\ signals' = IF new THEN Append(signals, NewSignal("MKT-A", "yes", 35)) ELSE signals
       /\ cycle' = [pc |-> "execute",
                    age |-> IF new THEN Append([i \in DOMAIN signals |-> older(cycle.age[i])], 0)
                            ELSE [i \in DOMAIN signals |-> older(cycle.age[i])]]
  /\ UNCHANGED << config, pass, venue_orders, disturbances >>
  /\ UNCHANGED << txn, fnIn, fnOut, ingest >>
  /\ UNCHANGED ledgerVars
  /\ UNCHANGED sizingVars

ExecuteStage ==
  /\ cycle.pc = "execute"
  /\ \E ok \in BOOLEAN, outcome \in [DOMAIN signals -> PassOutcomes] :
       LET batch == fetch_pending_signals(signals, batch_limit)
           ids == { batch[k] : k \in DOMAIN batch }
       IN  signals' = IF ok
                      THEN [i \in DOMAIN signals |->
                              IF i \in ids THEN [signals[i] EXCEPT !.status = outcome[i]]
                              ELSE signals[i]]
                      ELSE signals
  /\ cycle' = [cycle EXCEPT !.pc = "sleep"]
  /\ UNCHANGED << config, pass, venue_orders, disturbances >>
  /\ UNCHANGED << txn, fnIn, fnOut, ingest >>
  /\ UNCHANGED ledgerVars
  /\ UNCHANGED sizingVars

SchedulerInit ==
  /\ LedgerEmpty
  /\ last_yes = LatestPrices
  /\ SizingIdle
  /\ signals = << NewSignal("MKT-A", "yes", 35) >>
  /\ config = [execution_mode |-> "simulate", risk_limits |-> get_risk_limits,
               batch_limit |-> batch_limit]
  /\ pass = [e \in Executors |-> IdlePass]
  /\ venue_orders = << >>
  /\ disturbances = 0
  /\ cycle = [pc |-> "sleep", age |-> << 0 >>]
  /\ txn = << >> /\ fnIn = << >> /\ fnOut = << >> /\ ingest = << >>

SchedulerNext == StartMinuteCycle \/ ExecuteStage

\* schedule.run_pending() in an endless loop: a due cycle is started, a
\* started stage is run.
SpecScheduler ==
  /\ SchedulerInit
  /\ [][SchedulerNext]_vars
  /\ WF_vars(StartMinuteCycle)
  /\ WF_vars(ExecuteStage)

StalePending(i) ==
  /\ i \in DOMAIN signals
  /\ signals[i].status = "pending"
  /\ cycle.age[i] > max_age_minutes

\* C16: under the running scheduler, a signal that has been pending for more
\* than max_age_minutes is eventually cancelled.
C16_StaleEventuallyCancelled ==
  \A i \in 1..MaxGenerated :
    StalePending(i) ~> (i \in DOMAIN signals /\ signals[i].status = "cancelled")

(***************************************************************************)
(* Signal generation: the body of generate_signals' loop for one market.   *)
(* Times are minutes since 2000-01-01 00:00 UTC.  A market row carries its *)
(* latest price and estimated probability (hundredths), its category, the  *)
(* date token of its name (day, month code and two-digit year, or NULL),   *)
(* whether its ticker holds a sport hint, and its expiration.              *)
(***************************************************************************)
EXPIRY_HARD_LIMIT_HOURS == 24
PRO_SPORTS_CATEGORIES == {"sports", "nfl", "nba", "nhl", "football", "basketball", "hockey"}
COLLEGE_CATEGORIES == {"college", "ncaa", "ncaaf", "ncaab"}
MONTH_MAP ==
  [JAN |-> 1, FEB |-> 2, MAR |-> 3, APR |-> 4, MAY |-> 5, JUN |-> 6,
   JUL |-> 7, AUG |-> 8, SEP |-> 9, OCT |-> 10, NOV |-> 11, DEC |-> 12]

\* str.lower() on the category strings that occur.
lower(cat) ==
  IF cat = "NFL" THEN "nfl" ELSE IF cat = "Weather" THEN "weather"
  ELSE IF cat = "NCAAF" THEN "ncaaf" ELSE IF cat = "Sports" THEN "sports" ELSE cat

\* datetime(2000 + yy, month, day, hour, minute): the time in minutes, or
\* raised for a day the month does not have (ValueError).
datetime_minutes(yy, month, day, hour, minute) ==
  LET leap == yy % 4 = 0
      month_days == << 31, IF leap THEN 29 ELSE 28, 31, 30, 31, 30, 31, 31, 30, 31, 30, 31 >>
      before == << 0, 31, 59, 90, 120, 151, 181, 212, 243, 273, 304, 334 >>
      days == yy * 365 + ((yy + 3) \div 4) + before[month]
                + (IF leap /\ month > 2 THEN 1 ELSE 0) + day - 1
  IN  IF day < 1 \/ day > month_days[month] THEN [kind |-> "raise", at |-> 0]
      ELSE [kind |-> "time", at |-> (days * 24 + hour) * 60 + minute]

\* None, a time, or raised.
parse_market_date(token) ==
  IF token = NULL THEN [kind |-> "none", at |-> 0]
  ELSE IF token[1].month \notin DOMAIN MONTH_MAP THEN [kind |-> "none", at |-> 0]
  ELSE LET d == datetime_minutes(token[1].year, MONTH_MAP[token[1].month], token[1].day, 23, 59)
       IN  IF d.kind = "raise" THEN d ELSE [kind |-> "time", at |-> d.at - 24 * 60]

\* The expiry window: the market passes with exp_ts, is skipped, or the date
\* token makes datetime raise.
expiry_window(m, now) ==
  LET cat_lower == IF m.category = NULL THEN "" ELSE lower(m.category[1])
      is_sport_any == \/ cat_lower \in PRO_SPORTS_CATEGORIES
                      \/ cat_lower \in COLLEGE_CATEGORIES
                      \/ m.ticker_hint
      first == IF is_sport_any THEN parse_market_date(m.name_token)
               ELSE [kind |-> "none", at |-> 0]
      parsed == IF first.kind = "time" /\ first.at < now THEN [kind |-> "none", at |-> 0]
                ELSE first
      exp_candidates == (IF m.expiration_ts = NULL THEN {} ELSE {m.expiration_ts[1]})
                          \cup (IF parsed.kind = "time" THEN {parsed.at} ELSE {})
      exp_ts == CHOOSE t \in exp_candidates : \A u \in exp_candidates : t <= u
      hard_cutoff == IF parsed.kind = "time" THEN parsed.at
                     ELSE now + EXPIRY_HARD_LIMIT_HOURS * 60
  IN  IF parsed.kind = "raise" THEN [kind |-> "raise", exp_ts |-> 0]
      ELSE IF exp_candidates = {} THEN [kind |-> "skip", exp_ts |-> 0]
      ELSE IF exp_ts < now \/ exp_ts > hard_cutoff THEN [kind |-> "skip", exp_ts |-> 0]
      ELSE [kind |-> "pass", exp_ts |-> exp_ts]

\* The candidates of one market that passed the window, as the loop builds
\* them: << side, ev, forced >>.
candidates_of(m, price, p_true, ev_yes, ev_no, remaining, ev_threshold) ==
  LET cat_lower == IF m.category = NULL THEN "" ELSE lower(m.category[1])
      is_pro_sport == cat_lower \in PRO_SPORTS_CATEGORIES
      is_college == cat_lower \in COLLEGE_CATEGORIES
      is_sport_any == is_pro_sport \/ is_college \/ m.ticker_hint
      weather_skip == cat_lower = "weather" /\ FLt(price, Dec(3, 100)) /\ FLt(p_true, Dec(3, 100))
      allow_band == FLe(Dec(88, 100), price) /\ FLe(price, Dec(92, 100))
      longshot_yes == is_pro_sport /\ FLe(price, Dec(15, 100))
      longshot_college == is_college /\ FLe(price, Dec(2, 100)) /\ remaining >= 60
      pro_inplay_override == is_sport_any /\ allow_band /\ remaining <= 30 /\ remaining > 0
      by_rule == IF allow_band
                 THEN (IF FLe(ev_threshold, ev_no) THEN << << "no", ev_no, FALSE >> >> ELSE << >>)
                 ELSE (IF FLe(ev_threshold, ev_yes) THEN << << "yes", ev_yes, FALSE >> >> ELSE << >>)
                        \o (IF FLe(ev_threshold, ev_no) THEN << << "no", ev_no, FALSE >> >> ELSE << >>)
  IN  IF weather_skip THEN << >>
      ELSE IF ~(allow_band \/ longshot_yes \/ longshot_college \/ pro_inplay_override) THEN << >>
      ELSE by_rule
             \o (IF longshot_yes THEN << << "yes", ev_yes, TRUE >> >> ELSE << >>)
             \o (IF longshot_college THEN << << "yes", ev_yes, TRUE >> >> ELSE << >>)
             \o (IF pro_inplay_override /\ allow_band THEN << << "no", ev_no, TRUE >> >> ELSE << >>)

\* The rows generate_signals inserts for one market, or raised.
signals_for_market(m, now, ev_threshold) ==
  Only({ IF window.kind = "raise" THEN [raised |-> TRUE, rows |-> << >>]
         ELSE IF window.kind = "skip" THEN [raised |-> FALSE, rows |-> << >>]
         ELSE Only({ [raised |-> FALSE,
                      rows |-> [k \in DOMAIN cands |->
                        [market_ticker |-> m.market_id, side |-> cands[k][1],
                         p_mkt |-> price, p_true_est |-> p_true,
                         expected_value |-> cands[k][2], forced |-> cands[k][3],
                         exp_ts |-> window.exp_ts, size |-> 1, status |-> "pending"]]]
                   : cands \in { candidates_of(m, price, p_true, FSub(p_true, price),
                                     FSub(FSub(FOne, p_true), FSub(FOne, price)),
                                     window.exp_ts - now, ev_threshold) } })
       : price \in { Dec(m.p_mkt, 100) }, p_true \in { Dec(m.p_true, 100) },
         window \in { expiry_window(m, now) } })

EV_THRESHOLD_DEFAULT == Dec(2, 100)

\* 2026-11-06 12:00 UTC
GenNow == datetime_minutes(26, 11, 6, 12, 0).at

GenPricePairs ==
  { << 10, 10 >>, << 10, 30 >>, << 2, 1 >>, << 50, 60 >>, << 50, 50 >>,
    << 90, 80 >>, << 90, 90 >>, << 90, 95 >> }
GenCategories == { NULL, << "politics" >>, << "NFL" >>, << "ncaa" >>, << "Weather" >> }
GenTokens ==
  { NULL, << [day |-> 5, month |-> "NOV", year |-> 26] >>,
    << [day |-> 7, month |-> "NOV", year |-> 26] >>,
    << [day |-> 12, month |-> "NOV", year |-> 26] >>,
    << [day |-> 31, month |-> "NOV", year |-> 26] >>,
    << [day |-> 7, month |-> "XYZ", year |-> 26] >> }
GenExpiryOffsets == { NULL, << -60 >>, << 20 >>, << 12 * 60 >>, << 30 * 60 >>, << 7 * 24 * 60 >> }

GenMarkets ==
  { [market_id |-> "MKT-A", p_mkt |-> pp[1], p_true |-> pp[2], category |-> cat,
     name_token |-> tok, ticker_hint |-> FALSE,
     expiration_ts |-> IF off = NULL THEN NULL ELSE << GenNow + off[1] >>]
    : pp \in GenPricePairs, cat \in GenCategories, tok \in GenTokens, off \in GenExpiryOffsets }

GenerateInit ==
  /\ LedgerEmpty
  /\ last_yes = LatestPrices
  /\ SizingIdle
  /\ ExecIdle
  /\ txn = << >> /\ cycle = << >> /\ ingest = << >>
  /\ fnIn \in { [op |-> "generate_signals", market |-> m] : m \in GenMarkets }
  /\ fnOut = NoResult

GenerateForMarket ==
  /\ fnIn # << >> /\ fnIn.op = "generate_signals"
  /\ fnOut = NoResult
  /\ fnOut' = signals_for_market(fnIn.market, GenNow, EV_THRESHOLD_DEFAULT)
  /\ UNCHANGED << txn, cycle, fnIn, ingest >>
  /\ UNCHANGED ledgerVars
  /\ UNCHANGED sizingVars
  /\ UNCHANGED execVars

GenerateNext == GenerateForMarket

SpecGenerate == GenerateInit /\ [][GenerateNext]_vars

Inserted == IF fnOut = NoResult THEN << >> ELSE fnOut.rows

\* C17: every inserted signal has an expected value of at least ev_threshold,
\* the expected value being that of its side, and is inserted pending with
\* size 1, whichever rule or override admitted it.
C17_InsertedMeetThreshold ==
  \A k \in DOMAIN Inserted :
    /\ FLe(EV_THRESHOLD_DEFAULT, Inserted[k].expected_value)
    /\ Inserted[k].expected_value =
         (IF Inserted[k].side = "yes"
          THEN FSub(Inserted[k].p_true_est, Inserted[k].p_mkt)
          ELSE FSub(FSub(FOne, Inserted[k].p_true_est), FSub(FOne, Inserted[k].p_mkt)))
    /\ Inserted[k].status = "pending"
    /\ Inserted[k].size = 1

\* C18: a signal is inserted only for a market whose expiration, the earlier
\* of its stored expiration and the date parsed from its name, is known and
\* lies between now and now + 24 hours.
C18_InsertedWithinWindow ==
  Inserted # << >>
    => \A k \in DOMAIN Inserted :
         /\ GenNow <= Inserted[k].exp_ts
         /\ Inserted[k].exp_ts <= GenNow + EXPIRY_HARD_LIMIT_HOURS * 60

(***************************************************************************)
(* Calibration (backtest/calibration.py).  Probabilities and bin edges are *)
(* given in hundredths and converted to floats where the code holds        *)
(* floats.                                                                 *)
(***************************************************************************)
EXTREME_BIN_EDGES == << 0, 2, 5, 10, 20, 40, 60, 80, 90, 95, 98, 100 >>

floats_of(cents) == [k \in DOMAIN cents |-> Dec(cents[k], 100)]

\* _bucket_from_edges with the comparison low < p <= high.
bucket_from_edges_high_inclusive(p, edges) ==
  IF FLe(p, edges[1]) THEN 0
  ELSE IF FLe(edges[Len(edges)], p) THEN Len(edges) - 2
  ELSE LET hits == { idx \in 0..(Len(edges) - 2) :
                       FLt(edges[idx + 1], p) /\ FLe(p, edges[idx + 2]) }
       IN  IF hits = {} THEN Len(edges) - 2
           ELSE CHOOSE idx \in hits : \A other \in hits : idx <= other

bucket_from_edges(p, edges) ==
  IF FLe(p, edges[1]) THEN 0
  ELSE IF FLe(edges[Len(edges)], p) THEN Len(edges) - 2
  ELSE LET hits == { idx \in 0..(Len(edges) - 2) :
                       \/ FLe(edges[idx + 1], p) /\ FLt(p, edges[idx + 2])
                       \/ idx = Len(edges) - 2 /\ FLe(p, edges[idx + 2]) }
       IN  IF hits = {} THEN Len(edges) - 2
           ELSE CHOOSE idx \in hits : \A other \in hits : idx <= other

EdgeLists == { EXTREME_BIN_EDGES, << 0, 50, 100 >>, << 20, 50, 80 >>, << 10, 90 >> }
ProbGrid == { 0, 1, 2, 5, 10, 15, 20, 40, 50, 60, 80, 85, 90, 95, 98, 99, 100 }

BucketInputs == { [op |-> "bucket_from_edges", p |-> p, edges |-> edges] : p \in ProbGrid, edges \in EdgeLists }

BucketFromEdges ==
  /\ fnIn # << >> /\ fnIn.op = "bucket_from_edges"
  /\ fnOut = NoResult
  /\ \E p \in { Dec(fnIn.p, 100) }, edges \in { floats_of(fnIn.edges) } :
       fnOut' = [idx |-> bucket_from_edges(p, edges), p |-> p, edges |-> edges]
  /\ UNCHANGED << txn, cycle, fnIn, ingest >>
  /\ UNCHANGED ledgerVars
  /\ UNCHANGED sizingVars
  /\ UNCHANGED execVars

\* compute_mid_price: NULL or << mid >>
compute_mid_price(row) ==
  IF row.bid_yes # NULL /\ row.ask_yes # NULL
  THEN << FDiv(FAdd(Dec(row.bid_yes[1], 100), Dec(row.ask_yes[1], 100)), FromInt(2)) >>
  ELSE IF row.last_yes # NULL THEN << Dec(row.last_yes[1], 100) >>
  ELSE NULL

\* _latest_price: NULL or << row >>, the row with the greatest timestamp
\* among those not after resolved_at (among all when resolved_at is NULL).
latest_price(prices, resolved_at) ==
  LET rows == { k \in DOMAIN prices : resolved_at = NULL \/ prices[k].timestamp <= resolved_at[1] }
  IN  IF rows = {} THEN NULL
      ELSE << prices[CHOOSE k \in rows : \A j \in rows : prices[j].timestamp <= prices[k].timestamp] >>

\* str.upper() on the resolutions that occur.
upper(resolution) == IF resolution = "yes" THEN "YES" ELSE IF resolution = "no" THEN "NO" ELSE resolution

bucket_index(p, num_bins) ==
  IF FLe(p, FZero) THEN 0
  ELSE IF FLe(FOne, p) THEN num_bins - 1
  ELSE Min2(FFloorDivInt(FMul(p, FromInt(num_bins)), FOne), num_bins - 1)

\* The edges of _bucket_edges: i * (1.0 / num_bins)
bucket_edges(num_bins) ==
  Only({ [k \in 1..(num_bins + 1) |-> FMul(FromInt(k - 1), step)]
       : step \in { FDiv(FOne, FromInt(num_bins)) } })

init_buckets_from_edges(edges) ==
  [k \in 1..(Len(edges) - 1) |->
     [bucket_low |-> edges[k], bucket_high |-> edges[k + 1], n |-> 0, n_yes |-> 0,
      p_mkt_sum |-> FZero]]

\* The selector of compute_calibration ("bins") and of
\* compute_calibration_with_bins ("edges").
selector(binning, p) ==
  IF binning.mode = "bins" THEN bucket_index(p, binning.num_bins)
  ELSE bucket_from_edges(p, floats_of(binning.bin_edges))

\* A bucket that counts only the markets resolved YES.
count_market_if_yes(bucket, p_mkt, resolution) ==
  IF upper(resolution) = "YES"
  THEN [bucket EXCEPT !.n = @ + 1, !.n_yes = @ + 1, !.p_mkt_sum = FAdd(@, p_mkt)]
  ELSE bucket

count_market(bucket, p_mkt, resolution) ==
  [bucket EXCEPT !.n = @ + 1,
                 !.n_yes = IF upper(resolution) = "YES" THEN @ + 1 ELSE @,
                 !.p_mkt_sum = FAdd(@, p_mkt)]

\* One pass of the loop of _compute_calibration_generic: the buckets after
\* the market is looked at.
count_resolved_market(buckets, market, binning) ==
  LET price_row == latest_price(market.prices, market.resolved_at)
      p_mkt == IF price_row = NULL THEN NULL ELSE compute_mid_price(price_row[1])
  IN  IF market.resolution = NULL \/ p_mkt = NULL THEN buckets
      ELSE Only({ [buckets EXCEPT ![idx + 1] = count_market(@, p, market.resolution[1])]
                : p \in { p_mkt[1] }, idx \in { selector(binning, p_mkt[1]) } })

\* The loop after the markets: the averages and the key p_mkt_sum removed.
finish_buckets(counted) ==
  [k \in DOMAIN counted |->
     [bucket_low |-> counted[k].bucket_low, bucket_high |-> counted[k].bucket_high,
      n |-> counted[k].n, n_yes |-> counted[k].n_yes,
      p_mkt_avg |-> IF counted[k].n = 0 THEN NULL
                    ELSE << FDiv(counted[k].p_mkt_sum, FromInt(counted[k].n)) >>,
      p_true |-> IF counted[k].n = 0 THEN NULL
                 ELSE << FDiv(FromInt(counted[k].n_yes), FromInt(counted[k].n)) >>]]

DEFAULT_BINS == 10

PriceRow(ts, bid, ask, last) == [timestamp |-> ts, bid_yes |-> bid, ask_yes |-> ask, last_yes |-> last]

\* The markets of tests/test_calibration.py and markets with a later row
\* after the resolution, without resolved_at, without a row, without a
\* usable price, without a resolution, and priced at 1.00.
ResolvedMarkets ==
  { [resolution |-> << "YES" >>, resolved_at |-> << 30 >>,
     prices |-> << PriceRow(0, << 90 >>, << 94 >>, NULL) >>],
    [resolution |-> << "NO" >>, resolved_at |-> << 30 >>,
     prices |-> << PriceRow(0, << 20 >>, << 24 >>, NULL) >>],
    [resolution |-> << "YES" >>, resolved_at |-> << 30 >>,
     prices |-> << PriceRow(0, NULL, NULL, << 30 >>), PriceRow(40, << 90 >>, << 94 >>, NULL) >>],
    [resolution |-> << "yes" >>, resolved_at |-> NULL,
     prices |-> << PriceRow(0, NULL, NULL, << 30 >>), PriceRow(50, NULL, NULL, << 70 >>) >>],
    [resolution |-> << "NO" >>, resolved_at |-> << 30 >>, prices |-> << >>],
    [resolution |-> << "YES" >>, resolved_at |-> << 30 >>,
     prices |-> << PriceRow(0, << 50 >>, NULL, NULL) >>],
    [resolution |-> NULL, resolved_at |-> NULL,
     prices |-> << PriceRow(0, << 90 >>, << 94 >>, NULL) >>],
    [resolution |-> << "NO" >>, resolved_at |-> << 30 >>,
     prices |-> << PriceRow(0, NULL, NULL, << 100 >>) >>] }

Binnings ==
  { [mode |-> "bins", num_bins |-> DEFAULT_BINS, bin_edges |-> << >>],
    [mode |-> "edges", num_bins |-> 0, bin_edges |-> EXTREME_BIN_EDGES] }

CalibrationInputs ==
  { [op |-> "compute_calibration", markets |-> << a, b >>, binning |-> binning]
    : a \in ResolvedMarkets, b \in ResolvedMarkets, binning \in Binnings }

\* compute_calibration / compute_calibration_with_bins: the empty buckets.
BeginCalibration ==
  /\ fnIn # << >> /\ fnIn.op = "compute_calibration"
  /\ fnOut = NoResult
  /\ fnOut' = [pc |-> "loop", k |-> 1,
               buckets |-> init_buckets_from_edges(
                             IF fnIn.binning.mode = "bins" THEN bucket_edges(fnIn.binning.num_bins)
                             ELSE floats_of(fnIn.binning.bin_edges))]
  /\ UNCHANGED << txn, cycle, fnIn, ingest >>
  /\ UNCHANGED ledgerVars
  /\ UNCHANGED sizingVars
  /\ UNCHANGED execVars

CountMarket ==
  /\ fnIn # << >> /\ fnIn.op = "compute_calibration"
  /\ fnOut # NoResult /\ fnOut.pc = "loop" /\ fnOut.k <= Len(fnIn.markets)
  /\ fnOut' = [fnOut EXCEPT !.k = @ + 1,
                            !.buckets = count_resolved_market(@, fnIn.markets[fnOut.k], fnIn.binning)]
  /\ UNCHANGED << txn, cycle, fnIn, ingest >>
  /\ UNCHANGED ledgerVars
  /\ UNCHANGED sizingVars
  /\ UNCHANGED execVars

FinishCalibration ==
  /\ fnIn # << >> /\ fnIn.op = "compute_calibration"
  /\ fnOut # NoResult /\ fnOut.pc = "loop" /\ fnOut.k > Len(fnIn.markets)
  /\ fnOut' = [pc |-> "done", k |-> fnOut.k, buckets |-> finish_buckets(fnOut.buckets)]
  /\ UNCHANGED << txn, cycle, fnIn, ingest >>
  /\ UNCHANGED ledgerVars
  /\ UNCHANGED sizingVars
  /\ UNCHANGED execVars

(***************************************************************************)
(* The threshold backtest (backtest/common.py, strategy_threshold.py) for  *)
(* one resolved market: the entry find_first_entry picks among the price   *)
(* rows of the market and the profit booked for it.                        *)
(***************************************************************************)
MIN_OPEN_INTEREST == 10

has_liquidity(row) ==
  IF row.open_interest = NULL THEN TRUE ELSE row.open_interest[1] >= MIN_OPEN_INTEREST

compute_profit(resolution, entry_price) ==
  IF upper(resolution) = "YES" THEN FSub(FOne, entry_price) ELSE FNeg(entry_price)

directional_profit(direction, resolution, yes_entry_price) ==
  IF direction = "yes" THEN compute_profit(resolution, yes_entry_price)
  ELSE Only({ IF upper(resolution) = "YES" THEN FNeg(no_price) ELSE FSub(FOne, no_price)
            : no_price \in { FSub(FOne, yes_entry_price) } })

\* operator.ge for direction yes, operator.le for direction no
comparator(direction, mid, threshold) ==
  IF direction = "yes" THEN FLe(threshold, mid) ELSE FLe(mid, threshold)

\* The rows that qualify for an entry, given the mid-price of every row.
entry_rows(prices, mids, threshold, direction) ==
  { k \in DOMAIN prices :
      /\ mids[k] # NULL
      /\ has_liquidity(prices[k])
      /\ comparator(direction, mids[k][1], threshold) }

\* find_first_entry with ORDER BY timestamp DESC.
find_last_entry(prices, mids, threshold, direction) ==
  LET rows == entry_rows(prices, mids, threshold, direction)
      k == CHOOSE r \in rows : \A j \in rows : prices[j].timestamp <= prices[r].timestamp
  IN  IF rows = {} THEN NULL
      ELSE << [entry_price |-> mids[k][1], entry_timestamp |-> prices[k].timestamp] >>

\* find_first_entry: NULL or << Trade >>, the rows read in ascending
\* timestamp order.
find_first_entry(prices, mids, threshold, direction) ==
  LET rows == entry_rows(prices, mids, threshold, direction)
      k == CHOOSE r \in rows : \A j \in rows : prices[r].timestamp <= prices[j].timestamp
  IN  IF rows = {} THEN NULL
      ELSE << [entry_price |-> mids[k][1], entry_timestamp |-> prices[k].timestamp] >>

\* The loop body of run_threshold_backtest for one market: NULL or the
\* trade appended.
threshold_trade(market, threshold, direction) ==
  Only({ Only({ IF entry = NULL THEN NULL
                ELSE << [entry_timestamp |-> entry[1].entry_timestamp,
                         yes_price |-> entry[1].entry_price,
                         entry_price |-> IF direction = "yes" THEN entry[1].entry_price
                                         ELSE FSub(FOne, entry[1].entry_price),
                         resolution |-> market.resolution[1],
                         profit |-> directional_profit(direction, market.resolution[1],
                                                       entry[1].entry_price)] >>
              : entry \in { find_first_entry(market.prices, mids, threshold, direction) } })
       : mids \in { [k \in DOMAIN market.prices |-> compute_mid_price(market.prices[k])] } })

BacktestRow(ts, bid, ask, open_interest) ==
  [timestamp |-> ts, bid_yes |-> bid, ask_yes |-> ask, last_yes |-> NULL,
   open_interest |-> open_interest]

\* The price histories of tests/test_strategy_0_90.py and histories stored
\* out of time order, with an illiquid first row, with a row at 0.09, with a
\* row without prices, without rows, and never crossing.
PriceHistories ==
  { << BacktestRow(0, << 80 >>, << 82 >>, << 20 >>), BacktestRow(5, << 91 >>, << 93 >>, << 20 >>) >>,
    << BacktestRow(0, << 40 >>, << 42 >>, << 20 >>), BacktestRow(5, << 94 >>, << 96 >>, << 20 >>) >>,
    << BacktestRow(5, << 91 >>, << 93 >>, << 20 >>), BacktestRow(0, << 95 >>, << 97 >>, << 20 >>),
       BacktestRow(9, << 99 >>, << 99 >>, << 20 >>) >>,
    << BacktestRow(0, << 95 >>, << 97 >>, << 5 >>), BacktestRow(5, << 91 >>, << 93 >>, NULL) >>,
    << BacktestRow(0, << 8 >>, << 10 >>, << 20 >>), BacktestRow(5, << 50 >>, << 52 >>, << 20 >>),
       BacktestRow(7, << 4 >>, << 6 >>, << 20 >>) >>,
    << BacktestRow(0, NULL, NULL, << 20 >>), BacktestRow(5, << 90 >>, << 90 >>, << 20 >>) >>,
    << >>,
    << BacktestRow(0, << 50 >>, << 52 >>, << 20 >>) >> }

BacktestInputs ==
  { [op |-> "threshold_backtest", direction |-> rule[1], threshold |-> rule[2],
     market |-> [resolution |-> << resolution >>, prices |-> prices]]
    : rule \in { << "yes", 90 >>, << "no", 10 >> }, resolution \in { "YES", "NO", "yes" },
      prices \in PriceHistories }

ThresholdBacktest ==
  /\ fnIn # << >> /\ fnIn.op = "threshold_backtest"
  /\ fnOut = NoResult
  /\ fnOut' = [trade |-> threshold_trade(fnIn.market, Dec(fnIn.threshold, 100), fnIn.direction)]
  /\ UNCHANGED << txn, cycle, fnIn, ingest >>
  /\ UNCHANGED ledgerVars
  /\ UNCHANGED sizingVars
  /\ UNCHANGED execVars

(***************************************************************************)
(* The probability lookup of the signal generator                          *)
(* (signals/generate_signals.py) and the estimator                         *)
(* (backtest/live_signals.py) on one persisted calibration result.         *)
(***************************************************************************)
\* lookup of _build_probability_lookup: calib is NULL or << buckets >>.
probability_lookup(calib, p_mkt) ==
  IF calib = NULL THEN p_mkt
  ELSE
    LET buckets == calib[1]
        usable == { k \in DOMAIN buckets :
                      buckets[k].p_mkt_avg # NULL /\ buckets[k].p_true # NULL }
    IN  IF usable = {} THEN p_mkt
        ELSE Only({ buckets[CHOOSE k \in usable :
                              \A j \in usable :
                                \/ FLt(delta[k], delta[j])
                                \/ delta[k] = delta[j] /\ k <= j].p_true[1]
                  : delta \in { [k \in usable |-> FAbs(FSub(buckets[k].p_mkt_avg[1], p_mkt))] } })

\* _bucket_midpoints: the (mid, p_true) points of the buckets with a p_true,
\* sorted by mid (sorted is stable).
bucket_midpoints(bins) ==
  LET kept == SelectSeq([k \in DOMAIN bins |-> k], LAMBDA k : bins[k].p_true # NULL)
      point(k) == [x |-> FAdd(bins[k].bucket_low,
                              FDiv(FSub(bins[k].bucket_high, bins[k].bucket_low), FromInt(2))),
                   y |-> bins[k].p_true[1]]
      points == [i \in DOMAIN kept |-> point(kept[i])]
      rank(i) == 1 + Cardinality({ j \in DOMAIN points :
                                     \/ FLt(points[j].x, points[i].x)
                                     \/ points[j].x = points[i].x /\ j < i })
  IN  [r \in DOMAIN points |-> points[CHOOSE i \in DOMAIN points : rank(i) = r]]

\* estimate_p_true: [kind |-> "raise"] or [kind |-> "ok", value |-> ...]
estimate_p_true(p_mkt, bins) ==
  Only({ IF points = << >> THEN [kind |-> "raise", value |-> FZero]
         ELSE IF FLe(p_mkt, points[1].x) THEN [kind |-> "ok", value |-> points[1].y]
         ELSE IF FLe(points[Len(points)].x, p_mkt)
         THEN [kind |-> "ok", value |-> points[Len(points)].y]
         ELSE LET pairs == { i \in 1..(Len(points) - 1) :
                               FLe(points[i].x, p_mkt) /\ FLe(p_mkt, points[i + 1].x) }
                  i == CHOOSE i \in pairs : \A j \in pairs : i <= j
                  weight == FDiv(FSub(p_mkt, points[i].x), FSub(points[i + 1].x, points[i].x))
              IN  IF pairs = {} THEN [kind |-> "ok", value |-> points[Len(points)].y]
                  ELSE IF points[i + 1].x = points[i].x
                  THEN [kind |-> "ok", value |-> points[i].y]
                  ELSE [kind |-> "ok",
                        value |-> FAdd(points[i].y,
                                       FMul(weight, FSub(points[i + 1].y, points[i].y)))]
       : points \in { bucket_midpoints(bins) } })

\* A persisted bucket, its figures in hundredths; avg and p_true NULL for a
\* bucket without observations.
CalibBucket(low, high, avg, p_true) ==
  [bucket_low |-> Dec(low, 100), bucket_high |-> Dec(high, 100),
   p_mkt_avg |-> IF avg = NULL THEN NULL ELSE << Dec(avg[1], 100) >>,
   p_true |-> IF p_true = NULL THEN NULL ELSE << Dec(p_true[1], 100) >>]

\* What get_latest_calibration_result returns: nothing, or the buckets of
\* the latest result.
PersistedCalibrations ==
  { NULL,
    << << CalibBucket(0, 50, << 30 >>, << 20 >>), CalibBucket(50, 100, << 70 >>, << 90 >>) >> >>,
    << << CalibBucket(0, 20, NULL, NULL), CalibBucket(20, 80, << 50 >>, << 50 >>),
          CalibBucket(80, 100, << 90 >>, << 95 >>) >> >>,
    << << CalibBucket(0, 50, NULL, NULL), CalibBucket(50, 100, NULL, NULL) >> >>,
    << << CalibBucket(0, 100, << 40 >>, << 45 >>) >> >> }

LookupPrices == {0, 10, 25, 50, 60, 75, 90, 100}

LookupInputs ==
  { [op |-> "p_true", calib |-> calib, p_mkt |-> Dec(cents, 100)]
    : calib \in PersistedCalibrations, cents \in LookupPrices }

\* The generator's lookup and the estimator, each applied to the market
\* price and the persisted buckets.
EstimateTrueProbability ==
  /\ fnIn # << >> /\ fnIn.op = "p_true"
  /\ fnOut = NoResult
  /\ fnOut' = [generator |-> probability_lookup(fnIn.calib, fnIn.p_mkt),
               estimator |-> IF fnIn.calib = NULL THEN [kind |-> "none", value |-> FZero]
                             ELSE estimate_p_true(fnIn.p_mkt, fnIn.calib[1])]
  /\ UNCHANGED << txn, cycle, fnIn, ingest >>
  /\ UNCHANGED ledgerVars
  /\ UNCHANGED sizingVars
  /\ UNCHANGED execVars

CalibrationInit ==
  /\ LedgerEmpty
  /\ last_yes = LatestPrices
  /\ SizingIdle
  /\ ExecIdle
  /\ txn = << >> /\ cycle = << >> /\ ingest = << >>
  /\ fnIn \in BucketInputs \cup CalibrationInputs \cup BacktestInputs \cup LookupInputs
  /\ fnOut = NoResult

CalibrationNext ==
  \/ BucketFromEdges
  \/ BeginCalibration
  \/ CountMarket
  \/ FinishCalibration
  \/ ThresholdBacktest
  \/ EstimateTrueProbability

SpecCalibration == CalibrationInit /\ [][CalibrationNext]_vars

Bucketed == fnOut # NoResult /\ fnIn.op = "bucket_from_edges"

\* C19 as stated: the bucket index lies in 0..len(edges)-2; p <= first edge
\* maps to bucket 0; every other p except the last edge maps to the bucket
\* with edges[i] <= p < edges[i+1]; the last edge maps to the last bucket.
C19_BucketCoversP ==
  Bucketed =>
    LET e == fnOut.edges
        i == fnOut.idx
    IN  /\ i \in 0..(Len(e) - 2)
        /\ FLe(fnOut.p, e[1]) => i = 0
        /\ fnOut.p = e[Len(e)] => i = Len(e) - 2
        /\ (FLt(e[1], fnOut.p) /\ fnOut.p # e[Len(e)])
             => FLe(e[i + 1], fnOut.p) /\ FLt(fnOut.p, e[i + 2])

\* C19, amended: the bucket index lies in 0..len(edges)-2; p <= first edge
\* maps to bucket 0 and p >= last edge maps to the last bucket; every p
\* strictly between the first and the last edge maps to the one bucket with
\* edges[i] <= p < edges[i+1], so an interior edge maps to the bucket that
\* starts at it.
C19_BucketCoversOrClamps ==
  Bucketed =>
    LET e == fnOut.edges
        i == fnOut.idx
    IN  /\ i \in 0..(Len(e) - 2)
        /\ FLe(fnOut.p, e[1]) => i = 0
        /\ FLe(e[Len(e)], fnOut.p) => i = Len(e) - 2
        /\ (FLt(e[1], fnOut.p) /\ FLt(fnOut.p, e[Len(e)]))
             => /\ FLe(e[i + 1], fnOut.p) /\ FLt(fnOut.p, e[i + 2])
                /\ \A k \in 0..(Len(e) - 2) :
                     (FLe(e[k + 1], fnOut.p) /\ FLt(fnOut.p, e[k + 2])) => k = i
        /\ \A k \in 2..(Len(e) - 1) : fnOut.p = e[k] => i = k - 1

\* 0.90, an interior edge of the extreme bins, is put in the bucket that
\* starts at 0.90.
C19_Witness ==
  /\ Bucketed
  /\ fnIn.edges = EXTREME_BIN_EDGES
  /\ fnIn.p = 90
  /\ fnOut.idx = 8

Calibrated == fnOut # NoResult /\ fnIn.op = "compute_calibration" /\ fnOut.pc = "done"

\* The mid-price of a market that calibration counts: << mid >>, or NULL for
\* a market without resolution, without a price row at or before its
\* resolution time, or without a usable price in that row.
CountedMid(market) ==
  IF market.resolution = NULL THEN NULL
  ELSE LET rows == { k \in DOMAIN market.prices :
                       market.resolved_at = NULL
                         \/ market.prices[k].timestamp <= market.resolved_at[1] }
           last == CHOOSE k \in rows : \A j \in rows : market.prices[j].timestamp <= market.prices[k].timestamp
       IN  IF rows = {} THEN NULL ELSE compute_mid_price(market.prices[last])

Covers(bucket, is_last, p) ==
  /\ FLe(bucket.bucket_low, p)
  /\ FLt(p, bucket.bucket_high) \/ (is_last /\ p = bucket.bucket_high)

\* The counted mid-price of every market of the input (NULL for none) and
\* the bucket the selector gives it (-1 for none).
CountedMids == [k \in DOMAIN fnIn.markets |-> CountedMid(fnIn.markets[k])]

Assigned(mids) ==
  [k \in DOMAIN mids |-> IF mids[k] = NULL THEN -1 ELSE selector(fnIn.binning, mids[k][1])]

CountsAddUp(assigned) ==
  \A b \in DOMAIN fnOut.buckets :
    LET counted == { k \in DOMAIN assigned : assigned[k] = b - 1 }
    IN  /\ fnOut.buckets[b].n = Cardinality(counted)
        /\ fnOut.buckets[b].n_yes
             = Cardinality({ k \in counted : fnIn.markets[k].resolution[1] \in {"YES", "yes"} })
        /\ fnOut.buckets[b].n_yes <= fnOut.buckets[b].n
        /\ fnOut.buckets[b].p_true = (IF fnOut.buckets[b].n = 0 THEN NULL
                              ELSE << FDiv(FromInt(fnOut.buckets[b].n_yes), FromInt(fnOut.buckets[b].n)) >>)

Backtested == fnOut # NoResult /\ fnIn.op = "threshold_backtest"

\* The rows of the market a threshold entry may be taken at: liquid, with a
\* mid-price, the mid-price on the buying side of the threshold.
Crossings ==
  { k \in DOMAIN fnIn.market.prices :
      LET row == fnIn.market.prices[k]
          mid == compute_mid_price(row)
      IN  /\ mid # NULL
          /\ row.open_interest = NULL \/ row.open_interest[1] >= MIN_OPEN_INTEREST
          /\ IF fnIn.direction = "yes" THEN FLe(Dec(fnIn.threshold, 100), mid[1])
             ELSE FLe(mid[1], Dec(fnIn.threshold, 100)) }

MaxIngestOps == 3
lookback_hours == 1

\* _parse_dt: None for None and for a string that is not ISO.
parse_dt(value) ==
  IF value = NULL THEN NULL
  ELSE IF value[1].kind = "iso" THEN << value[1].at >> ELSE NULL

\* Python's `a or b` on optional strings: None and "" are falsy.
py_or(a, b) == IF a = NULL \/ a = << "" >> THEN b ELSE a

normalize_market(market) ==
  [market_id |-> market.ticker,
   name |-> py_or(market.title, << market.ticker >>),
   category |-> market.category,
   resolution |-> py_or(market.result, market.status),
   resolved_at |-> parse_dt(IF market.expiration_time # NULL THEN market.expiration_time
                            ELSE market.close_time),
   created_at |-> parse_dt(market.open_time),
   expiration_ts |-> parse_dt(IF market.expiration_time # NULL THEN market.expiration_time
                              ELSE market.close_time),
   series_ticker |-> market.series_ticker]

\* upsert_market: INSERT ... ON CONFLICT (market_id) DO UPDATE SET name,
\* category, resolution, resolved_at, expiration_ts = EXCLUDED.*; created_at
\* is written by the insert alone.
upsert_market(table, market, now) ==
  [table EXCEPT ![market.market_id] =
     << [name |-> market.name, category |-> market.category,
         resolution |-> market.resolution, resolved_at |-> market.resolved_at,
         created_at |-> IF table[market.market_id] # NULL
                        THEN table[market.market_id][1].created_at
                        ELSE IF market.created_at # NULL THEN market.created_at
                        ELSE << now >>,
         expiration_ts |-> market.expiration_ts] >>]

normalize_yes_price(value) ==
  IF value = NULL THEN NULL
  ELSE IF value[1] > 1 THEN << Dec(value[1], 100) >> ELSE << FromInt(value[1]) >>

\* _candles_to_price_rows followed by insert_price (ON CONFLICT DO NOTHING)
\* for every candle the venue returned.
ingest_market_candles(prices, market_id, series_ticker, candles) ==
  IF series_ticker = NULL THEN prices
  ELSE prices \cup
       { [market_id |-> market_id, timestamp |-> candles[k].end_ts,
          last_yes |-> normalize_yes_price(candles[k].close)]
         : k \in { j \in DOMAIN candles :
                     \A r \in prices : ~(r.market_id = market_id
                                         /\ r.timestamp = candles[j].end_ts) } }

\* _recent_market_ids: WHERE resolution IS NULL OR resolved_at >= cutoff
recent_market_ids(table, cutoff) ==
  { id \in Markets :
      /\ table[id] # NULL
      /\ \/ table[id][1].resolution = NULL
         \/ table[id][1].resolved_at # NULL /\ table[id][1].resolved_at[1] >= cutoff }

IsoTime(at) == << [kind |-> "iso", at |-> at] >>

\* What the venue lists for a market: settled with a result, still trading
\* with an empty result, or without result and status; the times as ISO
\* strings, absent, or not ISO.
VenuePayloads ==
  { [ticker |-> id, title |-> NULL, category |-> << "Sports" >>,
     result |-> outcome[1], status |-> outcome[2],
     expiration_time |-> times[1], close_time |-> times[2],
     open_time |-> NULL, series_ticker |-> << "SER" >>]
    : id \in Markets,
      outcome \in { << << "yes" >>, << "finalized" >> >>, << << "no" >>, << "finalized" >> >>,
                    << << "" >>, << "active" >> >>, << NULL, NULL >> },
      times \in { << IsoTime(0), IsoTime(50) >>, << IsoTime(100), IsoTime(50) >>,
                  << NULL, IsoTime(50) >>,
                  << NULL, << [kind |-> "text", at |-> 0] >> >> } }

VenueCandles(now) == { << >>, << [end_ts |-> now, close |-> << 55 >>] >> }

\* One iteration of backfill_full_history: the market upserted, its candles
\* inserted.
BackfillMarket(market, candles) ==
  /\ ingest.ops < MaxIngestOps
  /\ \E normalized \in { normalize_market(market) } :
       ingest' = [markets |-> upsert_market(ingest.markets, normalized, ingest.now),
                  prices |-> ingest_market_candles(ingest.prices, normalized.market_id,
                                                   normalized.series_ticker, candles),
                  now |-> ingest.now + 30, ops |-> ingest.ops + 1]
  /\ UNCHANGED << txn, cycle, fnIn, fnOut >>
  /\ UNCHANGED ledgerVars
  /\ UNCHANGED sizingVars
  /\ UNCHANGED execVars

\* One iteration of the first loop of ingest_recent.
RecentUpsert(market) ==
  /\ ingest.ops < MaxIngestOps
  /\ ingest' = [ingest EXCEPT
                  !.markets = upsert_market(ingest.markets, normalize_market(market), ingest.now),
                  !.now = ingest.now + 30, !.ops = ingest.ops + 1]
  /\ UNCHANGED << txn, cycle, fnIn, fnOut >>
  /\ UNCHANGED ledgerVars
  /\ UNCHANGED sizingVars
  /\ UNCHANGED execVars

\* One iteration of the second loop of ingest_recent.
RecentCandles(market_id, candles) ==
  /\ ingest.ops < MaxIngestOps
  /\ market_id \in recent_market_ids(ingest.markets, ingest.now - lookback_hours * 60)
  /\ ingest' = [ingest EXCEPT
                  !.prices = ingest_market_candles(ingest.prices, market_id,
                                                   << market_id >>, candles),
                  !.now = ingest.now + 30, !.ops = ingest.ops + 1]
  /\ UNCHANGED << txn, cycle, fnIn, fnOut >>
  /\ UNCHANGED ledgerVars
  /\ UNCHANGED sizingVars
  /\ UNCHANGED execVars

IngestInit ==
  /\ LedgerEmpty /\ last_yes = LatestPrices
  /\ SizingIdle
  /\ ExecIdle
  /\ txn = << >> /\ cycle = << >> /\ fnIn = << >> /\ fnOut = << >>
  /\ ingest = [markets |-> [id \in Markets |-> NULL], prices |-> {}, now |-> 70, ops |-> 0]

IngestNext ==
  \/ \E market \in VenuePayloads : \E candles \in VenueCandles(ingest.now) :
       BackfillMarket(market, candles)
  \/ \E market \in VenuePayloads : RecentUpsert(market)
  \/ \E market_id \in Markets : \E candles \in VenueCandles(ingest.now) :
       RecentCandles(market_id, candles)

SpecIngest == IngestInit /\ [][IngestNext]_vars

IsResolved(row) == row # NULL /\ row[1].resolution \in { << "yes" >>, << "no" >>, << "YES" >>, << "NO" >> }

\* The payloads of markets the venue reports as not yet settled.
Unsettled(market) == market.result \in { NULL, << "" >> }

\* C22: a market row with a resolution of YES or NO keeps its resolution
\* and its resolution timestamp through every later step of ingestion, and
\* an upsert of a payload the venue reports as not yet settled stores a
\* null resolution.
C22_ResolvedImmutable ==
  [][ /\ \A id \in Markets :
           IsResolved(ingest.markets[id]) =>
             /\ ingest'.markets[id][1].resolution = ingest.markets[id][1].resolution
             /\ ingest'.markets[id][1].resolved_at = ingest.markets[id][1].resolved_at
      /\ \A market \in VenuePayloads :
           ( /\ Unsettled(market)
             /\ ingest'.markets = upsert_market(ingest.markets, normalize_market(market), ingest.now) )
           => ingest'.markets[market.ticker][1].resolution = NULL ]_vars

(***************************************************************************)
(* Overlapping passes: the risk the two passes dispatched taken together,  *)
(* on top of the exposure that stood before either of them dispatched.     *)
(***************************************************************************)
HasDispatched(e) == pass[e].dispatched # << >>

RECURSIVE DispatchedOnto(_, _, _)
DispatchedOnto(base, e, n) ==
  IF n = 0 THEN base
  ELSE FAdd(DispatchedOnto(base, e, n - 1), pass[e].dispatched[n].risk_new)

RECURSIVE MarketDispatchedOnto(_, _, _, _)
MarketDispatchedOnto(base, e, mk, n) ==
  IF n = 0 THEN base
  ELSE IF pass[e].dispatched[n].market_ticker = mk
       THEN FAdd(MarketDispatchedOnto(base, e, mk, n - 1), pass[e].dispatched[n].risk_new)
       ELSE MarketDispatchedOnto(base, e, mk, n - 1)

PriorTotal ==
  IF HasDispatched("scheduler") /\ HasDispatched("admin")
  THEN FMin(pass["scheduler"].start.total, pass["admin"].start.total)
  ELSE IF HasDispatched("scheduler") THEN pass["scheduler"].start.total
  ELSE IF HasDispatched("admin") THEN pass["admin"].start.total
  ELSE FZero

PriorMarket(mk) ==
  IF HasDispatched("scheduler") /\ HasDispatched("admin")
  THEN FMin(pass["scheduler"].start.per_market[mk], pass["admin"].start.per_market[mk])
  ELSE IF HasDispatched("scheduler") THEN pass["scheduler"].start.per_market[mk]
  ELSE IF HasDispatched("admin") THEN pass["admin"].start.per_market[mk]
  ELSE FZero

TogetherTotal ==
  DispatchedOnto(DispatchedOnto(PriorTotal, "scheduler", Len(pass["scheduler"].dispatched)),
                 "admin", Len(pass["admin"].dispatched))

TogetherMarket(mk) ==
  MarketDispatchedOnto(
    MarketDispatchedOnto(PriorMarket(mk), "scheduler", mk, Len(pass["scheduler"].dispatched)),
    "admin", mk, Len(pass["admin"].dispatched))

\* Every dispatch decision of pass e passed the cap checks on e's own
\* running figures.
WithinOwnCaps(e) ==
  \A n \in DOMAIN pass[e].dispatched :
    /\ FLe(pass[e].dispatched[n].risk_new, pass[e].limits.max_risk_per_trade)
    /\ FLe(MarketDispatchedOnto(pass[e].start.per_market[pass[e].dispatched[n].market_ticker],
                                e, pass[e].dispatched[n].market_ticker, n),
           pass[e].limits.max_risk_per_market)
    /\ FLe(DispatchedOnto(pass[e].start.total, e, n), pass[e].limits.max_risk_total)

CapsExceededTogether ==
  \/ FLt(config.risk_limits.max_risk_total, TogetherTotal)
  \/ \E mk \in Markets : FLt(config.risk_limits.max_risk_per_market, TogetherMarket(mk))

\* C23: the risk dispatched by the scheduled and the admin pass together,
\* plus the prior exposure, exceeds max_risk_total or max_risk_per_market
\* only when both passes dispatched, and then every dispatch decision of
\* each pass satisfied the cap checks on that pass's own figures; the
\* witness is the interleaving in which this happens.
C23_ExceededOnlyByOverlap ==
  CapsExceededTogether =>
    /\ HasDispatched("scheduler") /\ HasDispatched("admin")
    /\ WithinOwnCaps("scheduler") /\ WithinOwnCaps("admin")

\* Both passes ran to their end, each within its own caps, and what they
\* dispatched together exceeds max_risk_total.
C23_Witness ==
  /\ NoPassRunning
  /\ HasDispatched("scheduler") /\ HasDispatched("admin")
  /\ WithinOwnCaps("scheduler") /\ WithinOwnCaps("admin")
  /\ FLt(config.risk_limits.max_risk_total, TogetherTotal)

(***************************************************************************)
(* Batches: the scheduler's execute_signals passes, minute after minute,   *)
(* over more pending signals than one pass fetches.  A signal's place in   *)
(* the table is its place in the order of created_at.                      *)
(***************************************************************************)
BatchLimits == {1, 2}

BacklogSignals ==
  { << NewSignal("MKT-A", "yes", 35), NewSignal("MKT-B", "no", 80), NewSignal("MKT-A", "yes", 35) >>,
    << NewSignal("MKT-A", "yes", 35), NewSignal("MKT-A", "yes", 35), NewSignal("MKT-B", "no", 80) >> }

\* schedule.run_pending in the endless loop of scheduler.main: the next
\* minute's pass is due.
NextMinute(e) ==
  /\ pass[e].pc = "idle"
  /\ pass[e].runs = MaxPasses
  /\ pending_ids(signals) # << >>
  /\ pass' = [pass EXCEPT ![e].runs = 0]
  /\ UNCHANGED << signals, config, venue_orders, disturbances >>
  /\ UNCHANGED ledgerVars
  /\ UNCHANGED sizingVars
  /\ UNCHANGED restVars

BatchInit ==
  /\ signals \in BacklogSignals
  /\ config \in { [execution_mode |-> mode, risk_limits |-> TightLimits, batch_limit |-> limit]
                  : mode \in {"simulate", "live"}, limit \in BatchLimits }
  /\ pass = [e \in Executors |-> IdlePass]
  /\ venue_orders = << >>
  /\ disturbances = 0
  /\ LedgerEmpty
  /\ last_yes = [mk \in Markets |-> << >>]
  /\ SizingIdle
  /\ RestIdle

BatchNext ==
  \/ NextMinute("scheduler")
  \/ FetchPending("scheduler")
  \/ ReadRisk("scheduler")
  \/ Decide("scheduler")
  \/ WriteStatus("scheduler")
  \/ RecordTrade("scheduler")
  \/ RecordTradeRaises("scheduler")

\* The scheduler's loop never stops: a pass that is due starts, a pass that
\* started runs on.  ReadRisk, Decide and RecordTrade are enabled exactly
\* at their place in the pass (fetched, loop, marked), so weak fairness of
\* each is written with that place for its enabledness.
AtPlace(place) == pass["scheduler"].pc = place

RunsOn ==
  /\ []<>(~AtPlace("fetched")) \/ []<><<ReadRisk("scheduler")>>_vars
  /\ []<>(~AtPlace("loop")) \/ []<><<Decide("scheduler")>>_vars
  /\ []<>(~AtPlace("marked")) \/ []<><<RecordTrade("scheduler")>>_vars

SpecBatch ==
  /\ BatchInit
  /\ [][BatchNext]_vars
  /\ WF_vars(NextMinute("scheduler"))
  /\ WF_vars(FetchPending("scheduler"))
  /\ WF_vars(WriteStatus("scheduler"))
  /\ RunsOn

IsPending(i) == signals[i].status = "pending"

\* batch holds min(limit, number pending) signals, all pending, in
\* ascending order of creation, and no pending signal outside it is older
\* than one inside it.
OldestPending(batch, limit) ==
  /\ Len(batch) <= limit
  /\ \A k \in DOMAIN batch : IsPending(batch[k])
  /\ \A k \in DOMAIN batch : \A j \in DOMAIN batch : k < j => batch[k] < batch[j]
  /\ \A i \in DOMAIN signals :
       (IsPending(i) /\ \A k \in DOMAIN batch : batch[k] # i)
         => /\ Len(batch) = limit
            /\ \A k \in DOMAIN batch : batch[k] < i

\* The signals of the batch of pass e that the pass left dispatched.
LeftDispatched(e) ==
  { k \in DOMAIN pass[e].batch :
      signals[pass[e].batch[k]].status \notin {"pending", "ignored", "error"} }

\* C24: a pass fetches at most batch_limit signals, the oldest pending ones
\* in ascending order of creation, and changes the status of no signal but
\* the one its loop stands at; a pass that returns returns the number of
\* signals of its batch it left dispatched; and under the running scheduler
\* every pending signal eventually leaves pending.
C24_OldestFirstAndDrained ==
  /\ [][\A e \in Executors :
          /\ (pass[e].pc = "idle" /\ pass'[e].pc = "fetched")
               => OldestPending(pass'[e].batch, config.batch_limit)
          /\ \A i \in DOMAIN signals :
               signals'[i].status # signals[i].status
                 => \E x \in Executors :
                      /\ pass[x].pc \in {"loop", "placed", "marked"}
                      /\ pass[x].batch[pass[x].idx] = i
          /\ (pass[e].pc # "idle" /\ pass'[e].pc = "idle" /\ pass'[e].returned # NULL)
               => pass'[e].returned[1]
                    = Cardinality({ k \in DOMAIN pass'[e].batch :
                        signals'[pass'[e].batch[k]].status \notin {"pending", "ignored", "error"} })]_vars
  /\ \A i \in 1..3 : IsPending(i) ~> ~IsPending(i)

\* A pass with batch_limit 1 returned 1 for the oldest signal while two
\* younger signals wait, pending, for later passes.
C24_Witness ==
  /\ config.batch_limit = 1
  /\ pass["scheduler"].pc = "idle" /\ pass["scheduler"].returned = << 1 >>
  /\ pass["scheduler"].batch = << 1 >>
  /\ IsPending(2) /\ IsPending(3)

\* C25: the size and the per-contract risk computed for a signal are those
\* computed for its normalized price (a stored p_mkt above 1 divided by
\* 100, a negative one taken as 0), so a signal stored in cents is sized as
\* the same signal stored as a probability.
C25_SizedOnNormalizedPrice ==
  SizingDone =>
    szOut[1] = compute_order_size_for_signal(szIn.side, norm_price(szIn.price), szIn.bankroll,
                 szIn.risk_limits, szIn.per_market_risk, szIn.total_risk, szIn.risk_fraction)

\* C26: the true probability the generator assigns to a market price is
\* the estimator's result on the persisted buckets (the interpolation
\* between bucket midpoints, clamped at the ends), and the market price
\* itself when no calibration result is persisted.  Bucket sets on which
\* the estimator has no point to interpolate are left aside.
C26_GeneratorUsesEstimator ==
  (fnOut # NoResult /\ fnIn.op = "p_true") =>
    IF fnIn.calib = NULL THEN fnOut.generator = fnIn.p_mkt
    ELSE fnOut.estimator.kind = "ok" => fnOut.generator = fnOut.estimator.value

(***************************************************************************)
(* Take-profit exits (execution/exit_positions.py).  txn holds the         *)
(* environment (EXECUTION_MODE, TAKE_PROFIT_FACTOR) and the locals of the  *)
(* pass; ingest holds the markets table and the clock; last_yes the latest *)
(* price of each market.                                                   *)
(***************************************************************************)
MaxExitPasses == 2
TakeProfitFactors == {4, 10}
ExitReplies == {"raise", "bare", "resting"}

\* _fetch_positions_with_prices: the rows of positions with size <> 0, each
\* with its market's category and expiration and the market's latest price.
fetch_positions_with_prices(table, markets, latest) ==
  LET keys == SelectSeq(PosKeyOrder, LAMBDA k : table[k].held /\ table[k].size # 0)
  IN  [i \in DOMAIN keys |->
         [market_ticker |-> keys[i][1], side |-> keys[i][2], size |-> table[keys[i]].size,
          avg_entry_price |-> table[keys[i]].avg_entry_price,
          category |-> IF markets[keys[i][1]] = NULL THEN NULL
                       ELSE markets[keys[i][1]][1].category,
          expiration_ts |-> IF markets[keys[i][1]] = NULL THEN NULL
                            ELSE markets[keys[i][1]][1].expiration_ts,
          current_price |-> latest[keys[i][1]]]]

should_take_profit(side, entry, current, factor) ==
  IF FLe(entry, FZero) THEN FALSE
  ELSE IF side = "yes" THEN FLe(FMul(entry, factor), current)
  ELSE FLe(current, FDiv(entry, factor))

\* The checks of the loop body for one row: TRUE when the row is exited.
takes_exit(pos, now, factor) ==
  /\ pos.size > 0
  /\ pos.expiration_ts # NULL
  /\ pos.expiration_ts[1] >= now
  /\ pos.expiration_ts[1] <= now + EXPIRY_HARD_LIMIT_HOURS * 60
  /\ pos.current_price # NULL
  /\ \/ should_take_profit(pos.side, pos.avg_entry_price, pos.current_price[1], factor)
     \/ /\ pos.category # NULL
        /\ lower(pos.category[1]) \in COLLEGE_CATEGORIES
        /\ pos.side = "yes"
        /\ FLe(pos.avg_entry_price, Dec(2, 100))
        /\ FLe(Dec(10, 100), pos.current_price[1])

exit_order(pos) ==
  [signal_id |-> 0, ticker |-> pos.market_ticker, side |-> pos.side, action |-> "sell",
   count |-> pos.size, price_cents |-> price_cents_of(pos.current_price[1])]

exit_trade(pos, size, price) ==
  [signal_id |-> 0, market_ticker |-> pos.market_ticker, side |-> pos.side, size |-> size,
   price |-> price, direction |-> "sell"]

\* process_take_profit_exits up to the fetch of the positions.
BeginExits ==
  /\ txn.pc = "idle"
  /\ txn.passes < MaxExitPasses
  /\ \E client_ok \in BOOLEAN :
       txn' = [txn EXCEPT
                 !.pc = "loop", !.idx = 1, !.processed = 0,
                 !.mode = IF txn.execution_mode = "live" /\ client_ok THEN "live" ELSE "simulate",
                 !.rows = fetch_positions_with_prices(positions, ingest.markets, last_yes)]
  /\ UNCHANGED << cycle, fnIn, fnOut, ingest >>
  /\ UNCHANGED ledgerVars
  /\ UNCHANGED sizingVars
  /\ UNCHANGED execVars

\* One iteration of the loop: the row is skipped, or its closing trade is
\* recorded (simulate), or its closing order goes to the venue and the
\* trade is recorded with what the venue returned (live).
ExitPosition ==
  /\ txn.pc = "loop"
  /\ txn.idx <= Len(txn.rows)
  /\ \E pos \in { txn.rows[txn.idx] } : \E reply \in ExitReplies :
       LET exits == takes_exit(pos, ingest.now, FromInt(txn.factor))
           accepted == exits /\ txn.mode = "live" /\ reply # "raise"
           recorded == exits /\ (txn.mode = "simulate" \/ accepted)
       IN  /\ (txn.mode = "simulate" \/ ~exits) => reply = "bare"
           /\ IF recorded
              THEN IF txn.mode = "simulate"
                   THEN record_trade(exit_trade(pos, pos.size, pos.current_price[1]))
                   ELSE \E live \in { live_execution([p_mkt |-> pos.current_price[1]], pos.size,
                                        place_order_result(exit_order(pos), reply)) } :
                          record_trade(exit_trade(pos, live.executed_size, live.executed_price))
              ELSE UNCHANGED << positions, trades, ledgerLog >>
           /\ venue_orders' = IF accepted THEN Append(venue_orders, exit_order(pos))
                              ELSE venue_orders
           /\ txn' = [txn EXCEPT !.idx = @ + 1,
                                 !.processed = IF recorded THEN @ + 1 ELSE @]
  /\ UNCHANGED << account_pnl, last_yes, signals, config, pass, disturbances >>
  /\ UNCHANGED << cycle, fnIn, fnOut, ingest >>
  /\ UNCHANGED sizingVars

\* The loop is over: the pass returns the number of exits processed.
EndExits ==
  /\ txn.pc = "loop"
  /\ txn.idx > Len(txn.rows)
  /\ txn' = [txn EXCEPT !.pc = "idle", !.passes = @ + 1, !.returned = << txn.processed >>]
  /\ UNCHANGED << cycle, fnIn, fnOut, ingest >>
  /\ UNCHANGED ledgerVars
  /\ UNCHANGED sizingVars
  /\ UNCHANGED execVars

HeldPosition(size, cents) ==
  [held |-> TRUE, size |-> size, avg_entry_price |-> Dec(cents, 100), realized_pnl |-> FZero]

ExitMarket(category, expiration_ts) ==
  << [name |-> << "MKT-A" >>, category |-> category, resolution |-> NULL,
      resolved_at |-> NULL, created_at |-> << 0 >>, expiration_ts |-> expiration_ts] >>

ExitsInit ==
  /\ \E yes_row \in { NoPosition, HeldPosition(5, 20), HeldPosition(5, 2), HeldPosition(-5, 20) },
        no_row \in { NoPosition, HeldPosition(5, 60) } :
       positions = [k \in PosKeys |->
                      IF k = << "MKT-A", "yes" >> THEN yes_row
                      ELSE IF k = << "MKT-A", "no" >> THEN no_row ELSE NoPosition]
  /\ trades = << >> /\ account_pnl = NoSnapshot /\ ledgerLog = << >>
  /\ \E current \in { NULL, << Dec(10, 100) >>, << Dec(15, 100) >>, << Dec(80, 100) >> } :
       last_yes = [mk \in Markets |-> IF mk = "MKT-A" THEN current ELSE NULL]
  /\ \E market \in { NULL, ExitMarket(<< "Sports" >>, << 1060 >>),
                     ExitMarket(<< "NCAAF" >>, << 1060 >>), ExitMarket(NULL, << 999 >>),
                     ExitMarket(<< "Sports" >>, << 1000 + 24 * 60 + 1 >>),
                     ExitMarket(<< "Sports" >>, NULL) } :
       ingest = [markets |-> [id \in Markets |-> IF id = "MKT-A" THEN market ELSE NULL],
                 prices |-> {}, now |-> 1000, ops |-> 0]
  /\ \E mode \in {"simulate", "live"}, factor \in TakeProfitFactors :
       txn = [execution_mode |-> mode, factor |-> factor, pc |-> "idle", passes |-> 0,
              mode |-> "none", rows |-> << >>, idx |-> 0, processed |-> 0, returned |-> NULL]
  /\ SizingIdle
  /\ ExecIdle
  /\ cycle = << >> /\ fnIn = << >> /\ fnOut = << >>

ExitsNext == BeginExits \/ ExitPosition \/ EndExits

SpecExits == ExitsInit /\ [][ExitsNext]_vars

\* The row the loop stands at, and what the property says of it.
ExitRow == txn.rows[txn.idx]
ExitStep == txn.pc = "loop" /\ txn.idx <= Len(txn.rows) /\ txn'.idx = txn.idx + 1
InWindow(pos) ==
  /\ pos.expiration_ts # NULL
  /\ pos.expiration_ts[1] >= ingest.now
  /\ pos.expiration_ts[1] <= ingest.now + 24 * 60
Triggered(pos) ==
  LET entry == pos.avg_entry_price
      current == pos.current_price[1]
      factor == FromInt(txn.factor)
  IN  \/ pos.side = "yes" /\ FLt(FZero, entry) /\ FLe(FMul(entry, factor), current)
      \/ pos.side = "no" /\ FLt(FZero, entry) /\ FLe(current, FDiv(entry, factor))
      \/ /\ pos.side = "yes"
         /\ pos.category \in { << "NCAAF" >>, << "college" >>, << "ncaa" >>, << "ncaab" >> }
         /\ FLe(entry, Dec(2, 100)) /\ FLe(Dec(10, 100), current)
ClosingTrade(pos) ==
  [signal_id |-> 0, market_ticker |-> pos.market_ticker, side |-> pos.side,
   size |-> AbsInt(pos.size), price |-> pos.current_price[1], direction |-> "sell"]

\* What one iteration does to the trades for a row the property covers:
\* with the trigger one closing sell of the whole position at the current
\* price (in live mode: unless the venue refused the order), without it
\* nothing; and after a simulated exit the position's size is 0.
ExitsAsStated(pos) ==
  IF Triggered(pos)
  THEN \/ /\ trades' = Append(trades, ClosingTrade(pos))
          /\ txn.mode = "simulate" => positions'[<< pos.market_ticker, pos.side >>].size = 0
       \/ txn.mode = "live" /\ trades' = trades
  ELSE trades' = trades

\* C27: for every position with non-zero size, a known current price and
\* an expiration within [now, now + 24h], an exit pass emits exactly one
\* closing sell for the whole position at the current price when the
\* trigger holds and nothing otherwise; after a simulated exit the size is
\* 0 and a following pass emits nothing for the position.
C27_ExitOnTrigger ==
  [][ExitStep =>
       /\ (ExitRow.size # 0 /\ ExitRow.current_price # NULL /\ InWindow(ExitRow))
            => ExitsAsStated(ExitRow)
       /\ \A k \in DOMAIN trades :
            << trades[k].market_ticker, trades[k].side >> = << ExitRow.market_ticker, ExitRow.side >>
              => trades' = trades]_vars

\* The same for the positions with a positive size only, which is what the
\* loop of process_take_profit_exits does.
C27_LongPositions ==
  [][ExitStep =>
       /\ (ExitRow.size > 0 /\ ExitRow.current_price # NULL /\ InWindow(ExitRow))
            => ExitsAsStated(ExitRow)
       /\ \A k \in DOMAIN trades :
            << trades[k].market_ticker, trades[k].side >> = << ExitRow.market_ticker, ExitRow.side >>
              => trades' = trades]_vars

\* C28: no signal is ignored by one of the three cap guards (per trade,
\* per market, total): a signal the sizing gave a size above 0 passes them,
\* so the only reason a pass ignores a signal is a size of 0.
C28_SizedPassesGuards ==
  \A i \in DOMAIN signals :
    signals[i].status = "ignored"
      => signals[i].last_error = << "Insufficient risk budget for dynamic sizing" >>

\* A pass sized a signal above 0 with less room left on its market than
\* the 3 dollar target, and dispatched it.
C28_Witness ==
  \E e \in Executors :
    /\ Len(pass[e].dispatched) = 2
    /\ pass[e].dispatched[2].size > 0
    /\ pass[e].dispatched[1].market_ticker = pass[e].dispatched[2].market_ticker
    /\ FLt(FSub(pass[e].limits.max_risk_per_market,
                RunningMarket(e, pass[e].dispatched[2].market_ticker, 1)),
           FromInt(TARGET_RISK_USD))
    /\ signals[pass[e].dispatched[2].signal_id].status \in DispatchedStatuses

\* A recorded trade that sold a whole long position at the latest price of
\* its market.
ClosedAtMark(entry) ==
  /\ entry.op = "record_trade"
  /\ entry.trade.direction = "sell"
  /\ entry.before.held
  /\ entry.before.size > 0
  /\ entry.trade.size = entry.before.size
  /\ last_yes[entry.trade.market_ticker] = << entry.trade.price >>

\* C29: when a whole long position, YES or NO, is sold at the latest price
\* of its market, the realized PnL record_trade books for the close equals
\* the unrealized PnL snapshot_account_pnl computes for the position at
\* that price before the close, so the close leaves total equity unchanged.
C29_CloseAtMarkKeepsEquity ==
  \A i \in DOMAIN ledgerLog :
    ClosedAtMark(ledgerLog[i])
      => ledgerLog[i].change.realized_delta =
           unrealized_of(ledgerLog[i].before, ledgerLog[i].trade.side,
                         last_yes[ledgerLog[i].trade.market_ticker])

\* The same for YES positions only, where _profit_yes and the snapshot
\* agree.
C29_YesCloseAtMark ==
  \A i \in DOMAIN ledgerLog :
    (ClosedAtMark(ledgerLog[i]) /\ ledgerLog[i].trade.side = "yes")
      => ledgerLog[i].change.realized_delta =
           unrealized_of(ledgerLog[i].before, "yes", last_yes[ledgerLog[i].trade.market_ticker])

\* The most an order can cost on its own side: its limit price times its
\* count.
order_max_cost(order) == FMul(Dec(order.price_cents, 100), FromInt(order.count))

\* The order is priced at the per-contract risk the sizing used for its
\* signal, in cents clamped to 1..99, and costs at most the per-trade cap.
PricedAtAccountedRisk(order) ==
  /\ order.price_cents =
       price_cents_of(risk_per_contract_of(order.side, signals[order.signal_id].p_mkt))
  /\ FLe(order_max_cost(order), config.risk_limits.max_risk_per_trade)

\* C30: every order a live pass submits is priced on its own side at the
\* per-contract risk accounted for its signal (p_mkt for YES, 1 - p_mkt for
\* NO, clamped to 1..99 cents), so its maximum cost, limit price times
\* count, is the accounted risk and at most max_risk_per_trade.
C30_OrderCostIsAccountedRisk ==
  \A k \in DOMAIN venue_orders :
    venue_orders[k].action = "buy" => PricedAtAccountedRisk(venue_orders[k])

\* The same for the YES orders only.
C30_YesOrders ==
  \A k \in DOMAIN venue_orders :
    (venue_orders[k].action = "buy" /\ venue_orders[k].side = "yes")
      => PricedAtAccountedRisk(venue_orders[k])
====
